---- MODULE Spec2Model ----
(***************************************************************************)
(* Gamification engine of the vibe backend: the metric trigger             *)
(* (MetricTriggerService.metricTrigger wrapping                            *)
(* GamifyEngineRepository.metricTrigger) running as concurrent requests    *)
(* against the document store, each request inside one storage             *)
(* transaction.  Every storage call of a request is one step, so requests  *)
(* interleave at exactly the points where the code awaits.                 *)
(*                                                                         *)
(* Spec runs metricTrigger requests posted directly.  EventSpec runs the   *)
(* event layer on top of it: EventService.eventTrigger, which validates a  *)
(* payload, evaluates the event's rules and hands the resulting metrics to *)
(* metricTrigger, next to EventService.deleteEvent.  AdminSpec runs the    *)
(* administration requests (metrics, user metrics, achievements, user      *)
(* achievement records, rules) and the scoring request next to one metric  *)
(* trigger.  ScoreSpec runs ScoringService.calculateScore over the quiz    *)
(* attempts, with the weights being replaced in between.  WeightsSpec runs *)
(* ScoringWeightsRepository.update and get from an empty weights           *)
(* collection.  UsersSpec is Spec started with a second user's rows in the *)
(* store.                                                                  *)
(***************************************************************************)
EXTENDS Integers, Sequences, FiniteSets, TLC

\* ------------------------------------------------------------- bounds
\* Number of metricTrigger requests in one behaviour.
MaxCalls == 2
\* Number of eventTrigger requests in one behaviour.
MaxTriggers == 1
\* Most keys of one eventPayload.
MaxPayloadKeys == 2
\* Longest metrics list of one request.
MaxMetrics == 2
\* Latest reading of the wall clock (new Date()).
MaxTime == 1
\* Number of administration and scoring requests in one behaviour.
MaxRequests == 2
\* Longest grades list of one quiz attempt.
MaxGrades == 2

\* ------------------------------------------------------ configuration
\* The triggering user.
UserId == "u1"

\* Another user, who triggers nothing.
OtherUserId == "u2"

\* The rows of userGameMetrics whose userId is the other user's.
OtherUserMetrics ==
    [u \in {OtherUserId} |-> [m \in {"m1", "m2"} |-> IF m = "m1" THEN 1 ELSE 4]]

\* The UserGameAchievement record of the other user.
OtherUserAchievements ==
    [u \in {OtherUserId} |-> << [achievementId |-> "a3", unlockedAt |-> 0] >>]

\* Metric ids a request may name; "m3" references no GameMetric.
MetricIds == {"m1", "m2", "m3"}

\* gameMetrics collection, projected to {_id, defaultIncrementValue}.
InitialMetrics == [m \in {"m1", "m2"} |-> IF m = "m1" THEN 2 ELSE 1]

\* metricAchievements collection in natural (insertion) order.
InitialAchievements ==
    << [id |-> "a1", metricId |-> "m1", metricCount |-> 2,
        name |-> "n1", description |-> "d1", badgeUrl |-> "b1"],
       [id |-> "a2", metricId |-> "m1", metricCount |-> 5,
        name |-> "n2", description |-> "d2", badgeUrl |-> "b2"],
       [id |-> "a3", metricId |-> "m2", metricCount |-> 1,
        name |-> "n3", description |-> "d3", badgeUrl |-> "b3"] >>

\* A MetricTriggerItem value: <<>> is `undefined`, <<v>> the number v.
Unset == << >>
ItemValues == {Unset, << -1 >>, << 0 >>, << 3 >>}

MetricTriggerItem == [metricId : MetricIds, value : ItemValues]

\* MetricTrigger.metrics of a request (userId is UserId).
Requests == UNION {[1..n -> MetricTriggerItem] : n \in 0..MaxMetrics}

Calls == 1..MaxCalls

\* The empty userGameMetrics row set / session write set.
NoRows == [k \in {} |-> 0]

\* userGameMetrics without a row of another user.
NoOtherUsers == [u \in {} |-> NoRows]

\* eventTrigger requests; request c delegates to metricTrigger request c.
Triggers == 1..MaxTriggers

\* Event ids a request may name; "e9" references no Event.
EventIds == {"e1", "e2", "e3", "e4", "e9"}

\* What DELETE /events/:eventId may be given: an id or a string that is
\* not a valid ObjectId.
EventIdParams == EventIds \cup {"not-an-id"}

\* ObjectId.isValid(eventId)
IsValidObjectId(id) == id \in EventIds

\* The five EventPayloadType tags.
EventPayloadType == {"string", "number", "boolean", "object", "array"}

\* The events collection as created: eventId -> eventPayload
\* (Record<string, EventPayloadType>).
InitialEvents ==
    [e \in {"e1", "e2", "e3", "e4"} |->
        CASE e = "e1" -> [score |-> "number", tags |-> "array", meta |-> "object"]
          [] e = "e2" -> [name |-> "string", done |-> "boolean"]
          [] e = "e3" -> [done |-> "boolean", score |-> "number"]
          [] e = "e4" -> [score |-> "number"]]

\* Rule.logic in three shapes: {">": [{"var": key}, arg]}, {"var": key},
\* and an object that is no JsonLogic operation ("data", as
\* {condition: ..., action: ...}).
Logic(op, key, arg) == [op |-> op, key |-> key, arg |-> arg]

\* The rules collection as created.  "e2" has no rule, the two rules of
\* "e3" name the same metric, and the rule of "e4" names "m3", which
\* references no GameMetric (createRule does not look the metric up).
InitialRules ==
    << [id |-> "r1", eventId |-> "e1", metricId |-> "m1",
        logic |-> Logic(">", "score", 80)],
       [id |-> "r2", eventId |-> "e1", metricId |-> "m2",
        logic |-> Logic("var", "score", 0)],
       [id |-> "r3", eventId |-> "e3", metricId |-> "m1",
        logic |-> Logic("var", "done", 0)],
       [id |-> "r4", eventId |-> "e3", metricId |-> "m1",
        logic |-> Logic("var", "done", 0)],
       [id |-> "r5", eventId |-> "e4", metricId |-> "m3",
        logic |-> Logic("data", "", 0)] >>

\* A sequence back to front.
Reverse(s) == [i \in 1..Len(s) |-> s[Len(s) + 1 - i]]

\* Keys an eventPayload may hold; "extra" is declared by no event.
PayloadKeys == {"score", "tags", "meta", "name", "done", "extra"}

\* A JSON value of an eventPayload: its kind and, for a number, the number
\* (for a boolean 1 or 0).
JsonValue(type, n) == [type |-> type, n |-> n]
JsonNull == JsonValue("null", 0)
JsonValues ==
    { JsonValue("string", 0), JsonValue("number", 50), JsonValue("number", 90),
      JsonValue("boolean", 1), JsonValue("array", 0), JsonValue("object", 0) }

\* EventTrigger.eventPayload of a request.
Payloads ==
    UNION {[K -> JsonValues] :
              K \in {S \in SUBSET PayloadKeys : Cardinality(S) <= MaxPayloadKeys}}

\* Nothing deleted in the session of deleteEvent.
NoDeletes == [rules |-> {}, event |-> FALSE]

\* The administration and scoring requests of one behaviour.
RequestIds == 1..MaxRequests

\* The metricIds the administration requests are given: one GameMetric
\* that exists at the start and one id that never does.
RequestMetricIds == {"m1", "m3"}

\* POST /usermetrics and PUT /usermetrics bodies, for UserId.
UserGameMetricBodies == [metricId : RequestMetricIds, value : {5}]

\* POST /achievements bodies.
MetricAchievementBodies ==
    {[metricId |-> m, metricCount |-> 4, name |-> "n4",
      description |-> "d4", badgeUrl |-> "b4"] : m \in RequestMetricIds}

\* POST /rules bodies: a comparison that is false on the dummy payload, a
\* read that is truthy on it, an operation JsonLogic does not know, and a
\* rule of an event that does not exist.
RuleBodies ==
    {[eventId |-> "e1", metricId |-> "m1", logic |-> Logic(">", "score", 80)],
     [eventId |-> "e2", metricId |-> "m1", logic |-> Logic("var", "name", 0)],
     [eventId |-> "e1", metricId |-> "m1", logic |-> Logic("between", "score", 0)],
     [eventId |-> "e9", metricId |-> "m1", logic |-> Logic(">", "score", 80)]}

\* PUT /achievements bodies: a stored achievement moved to a metric that
\* exists or to one that does not, and an achievement id that names none.
UpdateMetricAchievementBodies ==
    {[achievementId |-> "a1", metricId |-> "m2", metricCount |-> 3,
      name |-> "n1", description |-> "d1", badgeUrl |-> "b1"],
     [achievementId |-> "a1", metricId |-> "m3", metricCount |-> 3,
      name |-> "n1", description |-> "d1", badgeUrl |-> "b1"],
     [achievementId |-> "a9", metricId |-> "m2", metricCount |-> 3,
      name |-> "n9", description |-> "d9", badgeUrl |-> "b9"]}

\* PUT /rule bodies: a stored rule moved to an event that exists or to one
\* that does not, and a rule id that names no rule.
UpdateRuleBodies ==
    {[ruleId |-> "r1", eventId |-> "e2", metricId |-> "m1",
      logic |-> Logic(">", "score", 90)],
     [ruleId |-> "r1", eventId |-> "e9", metricId |-> "m1",
      logic |-> Logic(">", "score", 90)],
     [ruleId |-> "r9", eventId |-> "e1", metricId |-> "m1",
      logic |-> Logic(">", "score", 90)]}

\* IQuestionGrade: confidenceScore on both sides of the threshold.
Grades == [confidenceScore : {2, 3}, result : BOOLEAN]

\* grades arrays of a quiz attempt, the empty array included (the service
\* accepts it from callers other than the validated route).
GradeLists == UNION {[1..n -> Grades] : n \in 0..MaxGrades}

\* gradingResult.totalScore of the attempt's submission: <<>> when there is
\* no graded submission.
TotalScores == {<< >>, << 0 >>, << 10 >>}

\* IQuizAttempt with the submission its ids name.
QuizAttempts ==
    [metricId : {"m1"}, grades : GradeLists, hintCount : {0, 3},
     streaks : {0, 2}, timeTaken : {50, 100}, idealTime : {60},
     attemptCount : {1, 3}, totalScore : TotalScores]

\* The metricTrigger request that runs next to the scoring requests.
ConcurrentRequests == {<< [metricId |-> "m1", value |-> << 3 >>] >>}

\* The attempts of the concurrent scoring requests.
ConcurrentAttempts ==
    {t \in QuizAttempts :
        /\ t.grades = << >> /\ t.hintCount = 0 /\ t.totalScore = << 10 >>
        /\ t.timeTaken = 50
        /\ \/ (t.attemptCount = 1 /\ t.streaks = 0)
           \/ (t.attemptCount = 3 /\ t.streaks = 2)}

\* ScoringWeightsRepository.createDefaultWeights, in tenths.
DefaultWeights ==
    [highWeight |-> 20, lowWeight |-> 10, hintPenalty |-> -5,
     streakBonus |-> 30, timeWeight |-> 2, attemptPenalty |-> -5]

\* PUT /weights bodies, in tenths.
WeightsBodies ==
    {[highWeight |-> 30, lowWeight |-> 20, hintPenalty |-> -5,
      streakBonus |-> 30, timeWeight |-> 2, attemptPenalty |-> -5]}

\* ScoringWeightsRepository.GLOBAL_WEIGHTS_ID: the _id of the one document
\* of scoring_weights.
GLOBAL_WEIGHTS_ID == "000000000000000000000001"

\* scoring_weights without a document.
NoWeights == [id \in {} |-> DefaultWeights]

\* The fields of IScoringWeights.
WeightNames == DOMAIN DefaultWeights

\* The weights an update replaces, in tenths (5, 2, -1, 4, 0.5 and -1).
UpdatedWeights ==
    [highWeight |-> 50, lowWeight |-> 20, hintPenalty |-> -10,
     streakBonus |-> 40, timeWeight |-> 5, attemptPenalty |-> -10]

\* Partial<IScoringWeights>: the arguments of ScoringService.updateWeights.
PartialWeights ==
    {[n \in supplied |-> UpdatedWeights[n]] :
        supplied \in SUBSET WeightNames \ {{}}}

\* A request that has not been received.
NoRequest == [op |-> "none"]

\* A session that has written nothing.
NoSession ==
    [inserted |-> NoRows, updated |-> NoRows, deletedOne |-> {},
     deletedMany |-> {}, deletedMetrics |-> {}, achievements |-> << >>,
     records |-> << >>, rules |-> << >>, ruleUpdates |-> NoRows,
     achievementUpdates |-> NoRows]

\* A scoring request that has computed nothing.
NoScore ==
    [confidenceScore |-> 0, bonus |-> 0, currentPoints |-> 0,
     pointsAdded |-> 0, finalPoints |-> 0]

VARIABLES
    userMetricCollection,       \* committed rows: metricId -> value, for UserId
    userAchievementCollection,  \* committed records: userId -> achievements array
    now,                        \* last reading of the clock
    pc,                         \* per request: the await it is suspended at
    body,                       \* per request: MetricTrigger.metrics as received
    metrics,                    \* per request: metricTriggers.metrics after default substitution
    snapshot,                   \* per request: userGameMetrics as its transaction sees them
    writes,                     \* per request: rows written in its session, uncommitted
    updateResult,               \* per request: operations the bulkWrite applied
    metricsUpdated,             \* per request: rows re-read after the bulkWrite
    achievementsUnlocked,       \* per request: achievements the aggregate matched
    result,                     \* per request: what the caller got
    achievementsUpdated,        \* per request: achievementsUnlocked of the response
    eventsCollection,           \* committed events: eventId -> eventPayload schema
    rulesCollection,            \* committed rules, in the order find returns them
    tpc,                        \* per eventTrigger: where it is suspended
    trigger,                    \* per eventTrigger: EventTrigger as received
    tresult,                    \* per eventTrigger: what the caller got
    dpc,                        \* deleteEvent: where it is suspended
    deleteId,                   \* deleteEvent: the eventId it was given
    dsession,                   \* deleteEvent: deletes of its session, uncommitted
    dresult,                    \* deleteEvent: what the caller got
    metricCollection,           \* committed gameMetrics: metricId -> defaultIncrementValue
    achievementCollection,      \* committed metricAchievements, in insertion order
    weightsCollection,          \* the scoring_weights document, in tenths
    userMetricDuplicates,       \* committed rows inserted next to the row of their key
    userAchievementDuplicates,  \* committed records inserted next to the record of their user
    rpc,                        \* per administration or scoring request: where it is suspended
    request,                    \* per request: the operation and its arguments
    session,                    \* per request: writes of its transaction, uncommitted
    response,                   \* per request: what the caller got
    score,                      \* per scoring request: the values calculateScore computed
    otherUserMetricCollection   \* committed rows of the other users: userId -> metricId -> value

vars == << userMetricCollection, userAchievementCollection, now, pc, body,
           metrics, snapshot, writes, updateResult, metricsUpdated,
           achievementsUnlocked, result, achievementsUpdated,
           eventsCollection, rulesCollection, tpc, trigger, tresult,
           dpc, deleteId, dsession, dresult, metricCollection,
           achievementCollection, weightsCollection, userMetricDuplicates,
           userAchievementDuplicates, rpc, request, session, response, score,
           otherUserMetricCollection >>

callVars == << pc, body, metrics, snapshot, writes, updateResult,
               metricsUpdated, achievementsUnlocked, result,
               achievementsUpdated >>

\* State of the event layer: events, rules, eventTrigger and deleteEvent.
layerVars == << eventsCollection, rulesCollection, tpc, trigger, tresult,
                dpc, deleteId, dsession, dresult >>

\* State of the administration and scoring requests, with the collections
\* only they write.
adminVars == << metricCollection, achievementCollection, weightsCollection,
                userMetricDuplicates, userAchievementDuplicates, rpc,
                request, session, response, score,
                otherUserMetricCollection >>

\* ------------------------------------------------- document store
\* Mutant: the bulkWrite is issued without the session.
SessionOpsWithoutBulkWrite == {"find(gameMetrics)", "findUserMetrics", "aggregate"}

\* Mutant: the re-read of the user's rows is issued without the session.
SessionOpsWithoutReRead == {"find(gameMetrics)", "bulkWrite", "aggregate"}

\* The storage calls of metricTrigger that are handed the transaction's
\* session; updateOne on userGameAchievements is not among them.
SessionOps == {"find(gameMetrics)", "bulkWrite", "findUserMetrics", "aggregate"}

\* Mutant: the upsert inserts the row with a baseline of 1.
RowValueFromOne(rows, m) == IF m \in DOMAIN rows THEN rows[m] ELSE 1

\* Value of a row, 0 when the upsert has to insert it.
RowValue(rows, m) == IF m \in DOMAIN rows THEN rows[m] ELSE 0

\* A row as an optional: <<>> when absent.
Row(rows, m) == IF m \in DOMAIN rows THEN << rows[m] >> ELSE << >>

\* Mutant: update: {$set: {value: metric.value}}
SetUpdate(current, v) == v

\* update: {$inc: {value: metric.value}}
IncUpdate(current, v) == current + v

\* updateOne {filter: {userId, metricId}, update: $inc, upsert: true}
UpdateOne(rows, item) ==
    (item.metricId :> IncUpdate(RowValue(rows, item.metricId), item.value[1])) @@ rows

\* The first n operations of an ordered bulkWrite, applied in order.
RECURSIVE BulkWriteOps(_, _, _)
BulkWriteOps(rows, ops, n) ==
    IF n = 0 THEN rows ELSE UpdateOne(BulkWriteOps(rows, ops, n - 1), ops[n])

\* userGameMetrics as request c reads them inside its transaction.
Visible(c) == writes[c] @@ snapshot[c]

\* Rows of userGameMetrics written by the open transaction of request b.
RowsWritten(b) ==
    DOMAIN session[b].inserted \cup DOMAIN session[b].updated
        \cup session[b].deletedOne \cup session[b].deletedMany

\* A write of request c to row m conflicts when another open transaction
\* has written the row, or the row changed after c's snapshot was taken
\* (for an upsert of the same key the unique (userId, metricId) index
\* makes the two inserts one row).
WriteConflict(c, m) ==
    \/ \E d \in Calls \ {c} : m \in DOMAIN writes[d]
    \/ \E b \in RequestIds : m \in RowsWritten(b)
    \/ Row(userMetricCollection, m) # Row(snapshot[c], m)

\* Mutant: the filters name no user.
FilterMatchesAll(u, userId) == TRUE

\* The userId equality of the filters {userId, metricId} of the bulkWrite
\* and {userId} of the updateOne: the documents of user u match when the
\* request is userId's.
FilterMatches(u, userId) == u = userId

\* $addToSet of one element: appended unless an equal document is present.
AddToSet(arr, e) ==
    IF \E i \in 1..Len(arr) : arr[i] = e THEN arr ELSE Append(arr, e)

\* Mutant: $set of the achievements array to the elements given.
SetEach(arr, es, n) == es

\* $addToSet with $each: the first n elements, in order.
RECURSIVE AddToSetEach(_, _, _)
AddToSetEach(arr, es, n) ==
    IF n = 0 THEN arr ELSE AddToSet(AddToSetEach(arr, es, n - 1), es[n])

\* ------------------------------------------------- metricTrigger
MetricIdsOf(ms) == {ms[i].metricId : i \in 1..Len(ms)}

\* new Set(metricIds).size !== metricIds.length
HasDuplicateIds(ms) == Cardinality(MetricIdsOf(ms)) # Len(ms)

\* Mutant: the length check is dropped.
MetricsFoundAlways(found, ms) == TRUE

\* metrics.length !== metricTriggers.metrics.length, negated
MetricsFound(found, ms) == Cardinality(found) = Len(ms)

\* Mutant: metric.value ? metric.value : metricDoc.defaultIncrementValue
ResolveValueIfTruthy(item) ==
    IF item.value = Unset \/ item.value = << 0 >>
    THEN << metricCollection[item.metricId] >> ELSE item.value

\* metric.value === undefined ? metricDoc.defaultIncrementValue : metric.value
ResolveValue(item) ==
    IF item.value = Unset THEN << metricCollection[item.metricId] >> ELSE item.value

\* Mutant: $lt in place of $lte.
QualifiesStrictly(ach, rows) ==
    \E mu \in rows : ach.metricId = mu.metricId /\ ach.metricCount < mu.value

\* Mutant: the $match compares the counts only.
QualifiesOnAnyMetric(ach, rows) ==
    \E mu \in rows : ach.metricCount <= mu.value

\* $match {$or: [{$and: [{metricId}, {$expr: {$lte: ['$metricCount', value]}}]}]}
Qualifies(ach, rows) ==
    \E mu \in rows : ach.metricId = mu.metricId /\ ach.metricCount <= mu.value

\* achievementsUnlocked.map(ach => ({achievementId: ach._id, unlockedAt: new Date()}))
AchievementIds(achs, t) ==
    [i \in 1..Len(achs) |-> [achievementId |-> achs[i].id, unlockedAt |-> t]]

\* A field of a document, <<>> when the document does not have it.
FieldOf(doc, f) == IF f \in DOMAIN doc THEN << doc[f] >> ELSE << >>

\* achievementsUnlocked.map(ach => ({achievementId: ach._id, name: ach.name,
\* description: ach.description, badgeUrl: ach.badgeUrl,
\* unlockedAt: ach.unlockedAt})), ach being a MetricAchievement document.
AchievementsUpdated(achs) ==
    [i \in 1..Len(achs) |->
        [achievementId |-> achs[i].id,
         name |-> FieldOf(achs[i], "name"),
         description |-> FieldOf(achs[i], "description"),
         badgeUrl |-> FieldOf(achs[i], "badgeUrl"),
         unlockedAt |-> FieldOf(achs[i], "unlockedAt")]]

\* _withTransaction when its callback throws: the transaction is aborted,
\* the session's writes are discarded and the error goes to the caller.
Throw(c, err) ==
    /\ pc' = [pc EXCEPT ![c] = "done"]
    /\ result' = [result EXCEPT ![c] = err]
    /\ metrics' = [metrics EXCEPT ![c] = << >>]
    /\ snapshot' = [snapshot EXCEPT ![c] = NoRows]
    /\ writes' = [writes EXCEPT ![c] = NoRows]
    /\ metricsUpdated' = [metricsUpdated EXCEPT ![c] = {}]
    /\ achievementsUnlocked' = [achievementsUnlocked EXCEPT ![c] = << >>]
    /\ achievementsUpdated' = [achievementsUpdated EXCEPT ![c] = << >>]

\* No metricTrigger has started.
CallsIdle ==
    /\ now = 0
    /\ pc = [c \in Calls |-> "idle"]
    /\ body = [c \in Calls |-> << >>]
    /\ metrics = [c \in Calls |-> << >>]
    /\ snapshot = [c \in Calls |-> NoRows]
    /\ writes = [c \in Calls |-> NoRows]
    /\ updateResult = [c \in Calls |-> 0]
    /\ metricsUpdated = [c \in Calls |-> {}]
    /\ achievementsUnlocked = [c \in Calls |-> << >>]
    /\ result = [c \in Calls |-> "pending"]
    /\ achievementsUpdated = [c \in Calls |-> << >>]

\* The engine's collections hold nothing of any user and no metricTrigger
\* has started.
EngineInit ==
    /\ userMetricCollection = NoRows
    /\ userAchievementCollection = [u \in {} |-> << >>]
    /\ otherUserMetricCollection = NoOtherUsers
    /\ CallsIdle

\* No eventTrigger and no deleteEvent has started.
LayerIdle ==
    /\ tpc = [c \in Triggers |-> "idle"]
    /\ trigger = [c \in Triggers |-> [eventId |-> "", eventPayload |-> << >>]]
    /\ tresult = [c \in Triggers |-> "pending"]
    /\ dpc = "idle"
    /\ deleteId = ""
    /\ dsession = NoDeletes
    /\ dresult = "pending"

\* No administration or scoring request has started; the metrics, the
\* achievements and the weights are the configured ones.
AdminIdle ==
    /\ metricCollection = InitialMetrics
    /\ achievementCollection = InitialAchievements
    /\ weightsCollection = NoWeights
    /\ userMetricDuplicates = << >>
    /\ userAchievementDuplicates = << >>
    /\ rpc = [a \in RequestIds |-> "idle"]
    /\ request = [a \in RequestIds |-> NoRequest]
    /\ session = [a \in RequestIds |-> NoSession]
    /\ response = [a \in RequestIds |-> "pending"]
    /\ score = [a \in RequestIds |-> NoScore]

Init ==
    /\ EngineInit
    /\ eventsCollection = InitialEvents
    /\ rulesCollection = InitialRules
    /\ LayerIdle
    /\ AdminIdle

\* MetricTriggerService.metricTrigger up to the bulkWrite: the service
\* checks the ids for duplicates (duplicate is what its Set comparison
\* finds), the repository reads the GameMetrics (the first read of the
\* session, which fixes the transaction's snapshot), compares the counts
\* and substitutes the defaults.
MetricTrigger(c, r, duplicate) ==
    /\ body' = [body EXCEPT ![c] = r]
    /\ LET found == {m \in DOMAIN metricCollection : m \in MetricIdsOf(r)}
       IN IF duplicate
          THEN Throw(c, "NotFoundError")
          ELSE IF ~MetricsFound(found, r)
          THEN Throw(c, "BadRequestError")
          ELSE IF \E i \in 1..Len(r) : r[i].metricId \notin found /\ r[i].value = Unset
          THEN Throw(c, "TypeError")
          ELSE /\ metrics' = [metrics EXCEPT ![c] =
                     [i \in 1..Len(r) |->
                        [metricId |-> r[i].metricId,
                         value |-> ResolveValue(r[i])]]]
               /\ snapshot' = [snapshot EXCEPT ![c] = userMetricCollection]
               /\ pc' = [pc EXCEPT ![c] = "bulkWrite"]
               /\ UNCHANGED << writes, metricsUpdated, achievementsUnlocked,
                               result, achievementsUpdated >>
    /\ UNCHANGED << userMetricCollection, userAchievementCollection, now,
                    updateResult, adminVars >>

\* POST /metrictrigger: the metricIds of the body are strings, which the
\* Set of the duplicate check compares by value.
Begin(c, r) ==
    /\ pc[c] = "idle"
    /\ \A d \in Calls : d < c => pc[d] # "idle"
    /\ MetricTrigger(c, r, HasDuplicateIds(r))
    /\ UNCHANGED layerVars

\* userMetricCollection.bulkWrite(bulkOps, {session}) applies every operation.
BulkWrite(c) ==
    /\ pc[c] = "bulkWrite"
    /\ Len(metrics[c]) > 0
    /\ \A m \in MetricIdsOf(metrics[c]) : ~WriteConflict(c, m)
    /\ LET n == Len(metrics[c]) IN
       /\ IF "bulkWrite" \in SessionOps
          THEN /\ writes' = [writes EXCEPT ![c] =
                     [m \in MetricIdsOf(metrics[c]) |->
                        BulkWriteOps(Visible(c), metrics[c], n)[m]]]
               /\ UNCHANGED userMetricCollection
          ELSE /\ userMetricCollection' =
                     BulkWriteOps(userMetricCollection, metrics[c], n)
               /\ UNCHANGED writes
       /\ updateResult' = [updateResult EXCEPT ![c] = n]
    /\ pc' = [pc EXCEPT ![c] = "findUserMetrics"]
    /\ UNCHANGED << userAchievementCollection, now, body, metrics, snapshot,
                    metricsUpdated, achievementsUnlocked, result,
                    achievementsUpdated, layerVars, adminVars >>

\* The bulkWrite throws after applying its first k operations (an empty
\* batch is refused outright): the error leaves the transaction, which is
\* aborted.
BulkWriteError(c, k) ==
    /\ pc[c] = "bulkWrite"
    /\ k < Len(metrics[c]) \/ (k = 0 /\ Len(metrics[c]) = 0)
    /\ IF "bulkWrite" \in SessionOps
       THEN UNCHANGED userMetricCollection
       ELSE userMetricCollection' =
                BulkWriteOps(userMetricCollection, metrics[c], k)
    /\ updateResult' = [updateResult EXCEPT ![c] = k]
    /\ Throw(c, "MongoBulkWriteError")
    /\ UNCHANGED << userAchievementCollection, now, body, layerVars, adminVars >>

\* userMetricCollection.find({userId, metricId: {$in: metricIds}}), the
\* null return when it finds nothing, and achievementCollection.aggregate
\* over the rows read (the achievements are fixed, so the two reads of the
\* same snapshot are one step).
FindUserMetrics(c) ==
    /\ pc[c] = "findUserMetrics"
    /\ LET rows == IF "findUserMetrics" \in SessionOps
                   THEN Visible(c) ELSE userMetricCollection
           read == {[metricId |-> m, value |-> rows[m]] :
                       m \in MetricIdsOf(metrics[c]) \cap DOMAIN rows}
       IN IF read = {}
          THEN Throw(c, "BadRequestError")
          ELSE /\ metricsUpdated' = [metricsUpdated EXCEPT ![c] = read]
               /\ achievementsUnlocked' = [achievementsUnlocked EXCEPT ![c] =
                      SelectSeq(achievementCollection,
                                LAMBDA a : Qualifies(a, read))]
               /\ pc' = [pc EXCEPT ![c] = "updateAchievements"]
               /\ UNCHANGED << metrics, snapshot, writes, result,
                               achievementsUpdated >>
    /\ UNCHANGED << userMetricCollection, userAchievementCollection, now,
                    body, updateResult, layerVars, adminVars >>

\* userAchievementCollection.updateOne({userId}, {$addToSet: {achievements:
\* {$each: achievementIds}}}): no session and no upsert, so it writes the
\* committed record at once and writes nothing when there is no record.
\* The response entries are built from the matched achievements right after.
UpdateUserAchievements(c, t) ==
    /\ pc[c] = "updateAchievements"
    /\ t >= now
    /\ now' = t
    /\ LET achievementIds == AchievementIds(achievementsUnlocked[c], t) IN
       userAchievementCollection' =
           [u \in DOMAIN userAchievementCollection |->
               IF FilterMatches(u, UserId)
               THEN AddToSetEach(userAchievementCollection[u], achievementIds,
                                 Len(achievementIds))
               ELSE userAchievementCollection[u]]
    /\ achievementsUpdated' = [achievementsUpdated EXCEPT ![c] =
           AchievementsUpdated(achievementsUnlocked[c])]
    /\ pc' = [pc EXCEPT ![c] = "commit"]
    /\ UNCHANGED << userMetricCollection, body, metrics, snapshot, writes,
                    updateResult, metricsUpdated, achievementsUnlocked, result,
                    layerVars, adminVars >>

\* _withTransaction when its callback returns: the transaction commits the
\* session's writes and the caller gets {metricsUpdated, achievementsUnlocked}.
Commit(c) ==
    /\ pc[c] = "commit"
    /\ userMetricCollection' = writes[c] @@ userMetricCollection
    /\ otherUserMetricCollection' =
           [u \in DOMAIN otherUserMetricCollection |->
               IF FilterMatches(u, UserId)
               THEN writes[c] @@ otherUserMetricCollection[u]
               ELSE otherUserMetricCollection[u]]
    /\ writes' = [writes EXCEPT ![c] = NoRows]
    /\ snapshot' = [snapshot EXCEPT ![c] = NoRows]
    /\ pc' = [pc EXCEPT ![c] = "done"]
    /\ result' = [result EXCEPT ![c] = "ok"]
    /\ UNCHANGED << userAchievementCollection, now, body, metrics,
                    updateResult, metricsUpdated, achievementsUnlocked,
                    achievementsUpdated, layerVars, metricCollection,
                    achievementCollection, weightsCollection,
                    userMetricDuplicates, userAchievementDuplicates, rpc,
                    request, session, response, score >>

\* The storage layer aborts the transaction of a request that is suspended
\* at one of its storage calls or at the commit.
Abort(c) ==
    /\ pc[c] \in {"findUserMetrics", "updateAchievements", "commit"}
    /\ Throw(c, "MongoError")
    /\ UNCHANGED << userMetricCollection, userAchievementCollection, now,
                    body, updateResult, layerVars, adminVars >>

\* UserGameAchievementsService.createUserGameAchievement for a user who has
\* no record: the record is inserted with an empty achievements array.
CreateUserGameAchievement ==
    /\ UserId \notin DOMAIN userAchievementCollection
    /\ userAchievementCollection' =
           (UserId :> << >>) @@ userAchievementCollection
    /\ UNCHANGED << userMetricCollection, now, callVars, layerVars, adminVars >>

\* ------------------------------------------------- event layer
\* typeof value
TypeOf(v) == IF v.type \in {"array", "object", "null"} THEN "object" ELSE v.type

\* payloadKeys.every(key => eventKeys.includes(key))
IsKeysValid(schema, payload) == DOMAIN payload \subseteq DOMAIN schema

\* payloadKeys.every(key => typeof eventPayload[key] === event.eventPayload[key])
IsValueValid(schema, payload) ==
    \A key \in DOMAIN payload :
        /\ key \in DOMAIN schema
        /\ TypeOf(payload[key]) = schema[key]

\* JsonLogic {"var": key}: the value at key, null when the data has none.
Var(data, key) == IF key \in DOMAIN data THEN data[key] ELSE JsonNull

\* Number(value), <<>> for NaN.
ToNumber(v) ==
    CASE v.type \in {"number", "boolean"} -> << v.n >>
      [] v.type \in {"null", "array"} -> << 0 >>
      [] OTHER -> << >>

\* jsonLogic.apply(logic, data)
Apply(logic, data) ==
    CASE logic.op = "var" -> Var(data, logic.key)
      [] logic.op = ">" ->
            LET a == ToNumber(Var(data, logic.key))
            IN JsonValue("boolean", IF a # << >> /\ a[1] > logic.arg THEN 1 ELSE 0)
      [] OTHER -> JsonValue("object", 0)

\* if (value)
Truthy(v) ==
    CASE v.type \in {"number", "boolean"} -> v.n # 0
      [] v.type = "null" -> FALSE
      [] OTHER -> TRUE

\* Mutant: every rule yields a metric trigger.
IsRuleValidAlways(rule, payload) == TRUE

\* isRuleValid = jsonLogic.apply(rule.logic, eventPayload), as a condition
IsRuleValid(rule, payload) == Truthy(Apply(rule.logic, payload))

\* gamifyLayerRepo.readRules(eventId): rulesCollection.find({eventId})
ReadRules(rules, e) == SelectSeq(rules, LAMBDA rule : rule.eventId = e)

\* rules.map(rule => isRuleValid ? {metricId: rule.metricId} : undefined)
\*      .filter(metric => metric !== undefined)
MetricTriggers(rules, payload) ==
    LET valid == SelectSeq(rules, LAMBDA rule : IsRuleValid(rule, payload))
    IN [i \in 1..Len(valid) |-> [metricId |-> valid[i].metricId, value |-> Unset]]

\* Mutant: the empty metric list is handed on.
NoMetricTriggersNever(ms) == FALSE

\* metricTrigger.metrics.length === 0
NoMetricTriggers(ms) == Len(ms) = 0

\* new Set(metricIds).size when the metricIds are the ObjectId instances
\* read from the rules: a Set compares objects by reference, and every
\* instance read is an object of its own.
SetSizeOfObjectIds(ms) == Len(ms)

\* uniqueMetricIds.size !== metricIds.length for ObjectId instances
HasDuplicateObjectIds(ms) == SetSizeOfObjectIds(ms) # Len(ms)

\* eventTrigger ends without calling metricTrigger.
EventTriggerEnds(c, res) ==
    /\ tpc' = [tpc EXCEPT ![c] = "done"]
    /\ tresult' = [tresult EXCEPT ![c] = res]
    /\ UNCHANGED << userMetricCollection, userAchievementCollection, now,
                    adminVars, callVars >>

\* POST /eventtrigger up to the call of metricTrigger: readEvent, the key
\* and type checks, readRules and the evaluation of the rules.  The two
\* reads are of one snapshot and nothing is written, so they are one step;
\* the call of metricTrigger follows the evaluation without an await.
EventTrigger(c, e, p) ==
    /\ tpc[c] = "idle"
    /\ \A d \in Triggers : d < c => tpc[d] # "idle"
    /\ trigger' = [trigger EXCEPT ![c] = [eventId |-> e, eventPayload |-> p]]
    /\ IF e \notin DOMAIN eventsCollection
       THEN EventTriggerEnds(c, "NotFoundError")
       ELSE IF ~IsKeysValid(eventsCollection[e], p)
                \/ ~IsValueValid(eventsCollection[e], p)
       THEN EventTriggerEnds(c, "Error")
       ELSE LET rules == ReadRules(rulesCollection, e)
                ms == MetricTriggers(rules, p)
            IN IF Len(rules) = 0
               THEN EventTriggerEnds(c, "NotFoundError")
               ELSE IF NoMetricTriggers(ms)
               THEN EventTriggerEnds(c, "ok")
               ELSE /\ tpc' = [tpc EXCEPT ![c] = "metricTrigger"]
                    /\ MetricTrigger(c, ms, HasDuplicateObjectIds(ms))
                    /\ UNCHANGED tresult
    /\ UNCHANGED << eventsCollection, rulesCollection, dpc, deleteId,
                    dsession, dresult >>

\* metricTrigger has answered: eventTrigger returns its response, or its
\* error leaves the transaction of eventTrigger and reaches the caller.
EventTriggerReturn(c) ==
    /\ tpc[c] = "metricTrigger"
    /\ pc[c] = "done"
    /\ tpc' = [tpc EXCEPT ![c] = "done"]
    /\ tresult' = [tresult EXCEPT ![c] = result[c]]
    /\ UNCHANGED << userMetricCollection, userAchievementCollection, now,
                    adminVars, callVars, eventsCollection, rulesCollection, trigger,
                    dpc, deleteId, dsession, dresult >>

\* The storage layer aborts the transaction of eventTrigger when the
\* callback has returned metricTrigger's response and the transaction is
\* to commit.  The session of this transaction was given to readEvent and
\* readRules only: metricTrigger ran in the transaction it opened itself.
EventTriggerAbort(c) ==
    /\ tpc[c] = "metricTrigger"
    /\ pc[c] = "done"
    /\ result[c] = "ok"
    /\ tpc' = [tpc EXCEPT ![c] = "done"]
    /\ tresult' = [tresult EXCEPT ![c] = "MongoError"]
    /\ UNCHANGED << userMetricCollection, userAchievementCollection, now,
                    adminVars, callVars, eventsCollection, rulesCollection, trigger,
                    dpc, deleteId, dsession, dresult >>

\* Mutant: the deleteOne of the event is issued without the session.
DeleteSessionOpsWithoutEvent == {"readEvent", "deleteRulesByEventId"}

\* The storage calls of EventService.deleteEvent that are handed the
\* transaction's session.
DeleteSessionOps == {"readEvent", "deleteRulesByEventId", "deleteEvent"}

\* Rules without those whose id is in ids.
WithoutRules(rules, ids) == SelectSeq(rules, LAMBDA rule : rule.id \notin ids)

\* Events without event e.
WithoutEvent(events, e) == [x \in DOMAIN events \ {e} |-> events[x]]

\* deleteEvent ends.
DeleteEventEnds(res) ==
    /\ dpc' = "done"
    /\ dresult' = res
    /\ dsession' = NoDeletes

\* DELETE /events/:eventId up to the first delete: the id check and
\* readEvent.
DeleteEventBegin(e) ==
    /\ dpc = "idle"
    /\ deleteId' = e
    /\ IF ~IsValidObjectId(e)
       THEN DeleteEventEnds("BadRequestError")
       ELSE IF e \notin DOMAIN eventsCollection
       THEN DeleteEventEnds("NotFoundError")
       ELSE /\ dpc' = "deleteRulesByEventId"
            /\ UNCHANGED << dsession, dresult >>
    /\ UNCHANGED << userMetricCollection, userAchievementCollection, now,
                    adminVars, callVars, eventsCollection, rulesCollection, tpc, trigger,
                    tresult >>

\* rulesCollection.deleteMany({eventId}, {session})
DeleteRulesByEventId ==
    /\ dpc = "deleteRulesByEventId"
    /\ LET ids == {rulesCollection[i].id : i \in
                      {k \in 1..Len(rulesCollection) :
                          rulesCollection[k].eventId = deleteId}}
       IN IF "deleteRulesByEventId" \in DeleteSessionOps
          THEN /\ dsession' = [dsession EXCEPT !.rules = ids]
               /\ UNCHANGED rulesCollection
          ELSE /\ rulesCollection' = WithoutRules(rulesCollection, ids)
               /\ UNCHANGED dsession
    /\ dpc' = "deleteEvent"
    /\ UNCHANGED << userMetricCollection, userAchievementCollection, now,
                    adminVars, callVars, eventsCollection, tpc, trigger, tresult,
                    deleteId, dresult >>

\* eventsCollection.deleteOne({_id: eventId}, {session})
DeleteEvent ==
    /\ dpc = "deleteEvent"
    /\ IF "deleteEvent" \in DeleteSessionOps
       THEN /\ dsession' = [dsession EXCEPT !.event = TRUE]
            /\ UNCHANGED eventsCollection
       ELSE /\ eventsCollection' = WithoutEvent(eventsCollection, deleteId)
            /\ UNCHANGED dsession
    /\ dpc' = "commit"
    /\ UNCHANGED << userMetricCollection, userAchievementCollection, now,
                    adminVars, callVars, rulesCollection, tpc, trigger, tresult,
                    deleteId, dresult >>

\* _withTransaction when the callback of deleteEvent returns: the deletes
\* of the session are committed together.
DeleteEventCommit ==
    /\ dpc = "commit"
    /\ rulesCollection' = WithoutRules(rulesCollection, dsession.rules)
    /\ eventsCollection' = IF dsession.event
                           THEN WithoutEvent(eventsCollection, deleteId)
                           ELSE eventsCollection
    /\ DeleteEventEnds("ok")
    /\ UNCHANGED << userMetricCollection, userAchievementCollection, now,
                    adminVars, callVars, tpc, trigger, tresult, deleteId >>

\* The storage layer aborts the transaction of deleteEvent: the deletes of
\* its session are discarded.
DeleteEventAbort ==
    /\ dpc \in {"deleteRulesByEventId", "deleteEvent", "commit"}
    /\ DeleteEventEnds("MongoError")
    /\ UNCHANGED << userMetricCollection, userAchievementCollection, now,
                    adminVars, callVars, eventsCollection, rulesCollection, tpc, trigger,
                    tresult, deleteId >>

\* ------------------------------------- administration and scoring
\* Variables no administration or scoring request writes.
otherVars == << now, callVars, eventsCollection, tpc, trigger, tresult,
                dpc, deleteId, dsession, dresult, otherUserMetricCollection >>

\* The collections a transaction of an administration request commits to.
storeVars == << userMetricCollection, userAchievementCollection,
                rulesCollection, metricCollection, achievementCollection,
                userMetricDuplicates, userAchievementDuplicates >>

\* _id the store gives the achievement that request a inserts.
InsertedAchievementId(a) == << "a4", "a5", "a6", "a7" >>[a]

\* _id the store gives the rule that request a inserts.
InsertedRuleId(a) == << "r6", "r7", "r8", "r9" >>[a]

\* Mutant: every metricId is taken for that of a GameMetric.
ReadGameMetricAlways(ms, m) == << 0 >>

\* metricCollection.findOne({_id: gameMetricId}, {session}): <<>> for none.
ReadGameMetric(ms, m) == IF m \in DOMAIN ms THEN << ms[m] >> ELSE << >>

\* Mutant: the existing row is not looked for.
ReadUserGameMetricNothing(rows, m) == << >>

\* userMetricCollection.findOne({userId, metricId}, {session}): <<>> for none.
ReadUserGameMetric(rows, m) == Row(rows, m)

\* A write of request a to row m conflicts when another open transaction
\* has written the row.
RowLocked(a, m) ==
    \/ \E b \in RequestIds \ {a} : m \in RowsWritten(b)
    \/ \E c \in Calls : m \in DOMAIN writes[c]

\* Mutant: userGameMetrics has no unique index.
IsDuplicateKeyNever(a, m) == FALSE

\* createIndex({userId: 1, metricId: 1}, {unique: true}): an insert is
\* refused when a committed row has its key, or a row that another open
\* transaction has written.
IsDuplicateKey(a, m) == m \in DOMAIN userMetricCollection \/ RowLocked(a, m)

\* userMetricCollection.deleteMany({metricId}, {session}): the keys whose
\* rows it deletes.
CascadeDelete(rows, m) == {m} \cap DOMAIN rows

\* The payload createRule evaluates a rule on: one value per key of the
\* event's eventPayload, chosen by the key's type tag ('dummy string', 0,
\* false, [] and {}).
DummyPayload(schema) ==
    [key \in DOMAIN schema |->
        CASE schema[key] = "string" -> JsonValue("string", 0)
          [] schema[key] = "number" -> JsonValue("number", 0)
          [] schema[key] = "boolean" -> JsonValue("boolean", 0)
          [] schema[key] = "array" -> JsonValue("array", 0)
          [] schema[key] = "object" -> JsonValue("object", 0)]

\* jsonLogic.apply(logic, data) throws "Unrecognized operation" for a
\* one-key object whose key is no operation.
ApplyThrows(logic, data) == logic.op \notin {"var", ">", "data"}

\* Mutant: a rule whose logic is false on the dummy payload is refused too.
IsRuleRejectedUnlessTruthy(logic, data) ==
    ApplyThrows(logic, data) \/ ~Truthy(Apply(logic, data))

\* try { jsonLogic.apply(rule.logic, dummyPayload) } catch { throw }: the
\* value the evaluation yields is not looked at.
IsRuleRejected(logic, data) == ApplyThrows(logic, data)

\* Mutant: an event that is not found counts as one with an empty
\* eventPayload.
ReadEventOrEmpty(events, e) ==
    IF e \in DOMAIN events THEN << events[e] >> ELSE << [k \in {} |-> ""] >>

\* eventsCollection.findOne({_id: eventId}, {session}): <<>> for none,
\* else the event's eventPayload.
ReadEvent(events, e) == IF e \in DOMAIN events THEN << events[e] >> ELSE << >>

\* Mutant: grade.confidenceScore > 3
IsHighAbove(grade) == grade.confidenceScore > 3

\* const isHigh = grade.confidenceScore >= 3
IsHigh(grade) == grade.confidenceScore >= 3

\* The number of grades that are high or low confidence and right or wrong:
\* the counters of the loop over the grades.
CountGrades(grades, high, correct) ==
    Cardinality({i \in 1..Len(grades) :
                    IsHigh(grades[i]) = high /\ grades[i].result = correct})

\* ScoringService.calculateConfidenceScore, in tenths.
CalculateConfidenceScore(grades, weights) ==
    (CountGrades(grades, TRUE, TRUE) * weights.highWeight)
        - (CountGrades(grades, TRUE, FALSE) * weights.highWeight)
        + (CountGrades(grades, FALSE, TRUE) * weights.lowWeight)
        - (CountGrades(grades, FALSE, FALSE) * weights.lowWeight)

\* Math.floor of a number of tenths.
Floor(tenths) == tenths \div 10

\* Math.max(0, n)
Max0(n) == IF n > 0 THEN n ELSE 0

\* The bonus of an attempt, in tenths: confidenceScore + totalHintPenalty
\* + streakBonusTotal + timeBonus + totalAttemptPenalty.
Bonus(t, weights) ==
    LET confidenceScore == CalculateConfidenceScore(t.grades, weights)
        totalHintPenalty == t.hintCount * weights.hintPenalty
        streakBonusTotal == t.streaks * weights.streakBonus
        timeBonus == (t.idealTime - t.timeTaken) * weights.timeWeight
        totalAttemptPenalty == (t.attemptCount - 1) * weights.attemptPenalty
    IN confidenceScore + totalHintPenalty + streakBonusTotal + timeBonus
           + totalAttemptPenalty

\* Mutant: the base points are added on every attempt.
PointsAddedWithBase(t, basePoints, bonus) ==
    Max0(Floor(basePoints * 10 + bonus))

\* pointsAdded of calculateScore: the first attempt earns base points and
\* bonus, a later attempt the bonus alone.
PointsAdded(t, basePoints, bonus) ==
    IF t.attemptCount = 1
    THEN Max0(Floor(basePoints * 10 + bonus))
    ELSE Max0(Floor(bonus))

\* Mutant: the running total is never read.
CurrentPointsNone(rows, m) == 0

\* userGameMetricsService.readUserGameMetrics(userId) and the find of the
\* attempt's metric: the row's value, 0 when the user has no such row
\* (NotFoundError when the user has no row at all).
CurrentPoints(rows, m) == RowValue(rows, m)

\* The row a request is creating or updating.
RowOf(a) ==
    IF request[a].op = "calculateScore"
    THEN [metricId |-> request[a].attempt.metricId,
          value |-> score[a].finalPoints]
    ELSE request[a].body

\* Request a ends: its transaction, if it has one open, is over.
RequestEnds(a, res) ==
    /\ rpc' = [rpc EXCEPT ![a] = "done"]
    /\ response' = [response EXCEPT ![a] = res]
    /\ session' = [session EXCEPT ![a] = NoSession]

\* Request a is received.
Received(a, req) ==
    /\ rpc[a] = "idle"
    /\ \A b \in RequestIds : b < a => rpc[b] # "idle"
    /\ request' = [request EXCEPT ![a] = req]

\* UserGameMetricsService.createUserGameMetric up to the insert: the
\* reads of the GameMetric and of the existing row.
CreateUserGameMetric(a, row) ==
    IF ReadGameMetric(metricCollection, row.metricId) = << >>
    THEN RequestEnds(a, "NotFoundError")
    ELSE IF ReadUserGameMetric(userMetricCollection, row.metricId) # << >>
    THEN RequestEnds(a, "Error")
    ELSE /\ rpc' = [rpc EXCEPT ![a] = "insertOne"]
         /\ UNCHANGED << session, response >>

\* UserGameMetricsService.updateUserGameMetric for a row that exists:
\* updateOne({userId, metricId}, {$set: updateData}, {session}).
UpdateUserGameMetric(a, row) ==
    IF RowLocked(a, row.metricId)
    THEN RequestEnds(a, "MongoServerError")
    ELSE /\ session' = [session EXCEPT ![a].updated =
                            (row.metricId :> row.value)]
         /\ rpc' = [rpc EXCEPT ![a] = "commit"]
         /\ UNCHANGED response

\* POST /usermetrics
PostUserMetrics(a, posted) ==
    /\ Received(a, [op |-> "createUserGameMetric", body |-> posted])
    /\ CreateUserGameMetric(a, posted)
    /\ UNCHANGED << otherVars, storeVars, weightsCollection, score >>

\* userMetricCollection.insertOne(userGameMetric, {session})
InsertOne(a) ==
    /\ rpc[a] = "insertOne"
    /\ LET row == RowOf(a) IN
       IF IsDuplicateKey(a, row.metricId)
       THEN RequestEnds(a, "MongoServerError")
       ELSE /\ session' = [session EXCEPT ![a].inserted =
                               (row.metricId :> row.value)]
            /\ rpc' = [rpc EXCEPT ![a] = "commit"]
            /\ UNCHANGED response
    /\ UNCHANGED << otherVars, storeVars, weightsCollection, request, score >>

\* PUT /usermetrics
PutUserMetrics(a, posted) ==
    /\ Received(a, [op |-> "updateUserGameMetric", body |-> posted])
    /\ IF ReadUserGameMetric(userMetricCollection, posted.metricId) = << >>
       THEN RequestEnds(a, "NotFoundError")
       ELSE UpdateUserGameMetric(a, posted)
    /\ UNCHANGED << otherVars, storeVars, weightsCollection, score >>

\* DELETE /usermetrics/:userId/:metricId:
\* userMetricCollection.deleteOne({userId, metricId}, {session})
DeleteUserMetrics(a, m) ==
    /\ Received(a, [op |-> "deleteUserGameMetric", metricId |-> m])
    /\ IF m \notin DOMAIN userMetricCollection
       THEN RequestEnds(a, "NotFoundError")
       ELSE IF RowLocked(a, m)
       THEN RequestEnds(a, "MongoServerError")
       ELSE /\ session' = [session EXCEPT ![a].deletedOne = {m}]
            /\ rpc' = [rpc EXCEPT ![a] = "commit"]
            /\ UNCHANGED response
    /\ UNCHANGED << otherVars, storeVars, weightsCollection, score >>

\* DELETE /metrics/:metricId: metricService.deleteGameMetric deletes the
\* GameMetric and then the rows that reference it.  Both deletes act on
\* the snapshot the first one fixes and write to the session only, so
\* they are one step.
DeleteMetrics(a, m) ==
    /\ Received(a, [op |-> "deleteGameMetric", metricId |-> m])
    /\ IF ReadGameMetric(metricCollection, m) = << >>
       THEN RequestEnds(a, "NotFoundError")
       ELSE IF \/ \E b \in RequestIds \ {a} : m \in session[b].deletedMetrics
               \/ (CascadeDelete(userMetricCollection, m) # {}
                   /\ RowLocked(a, m))
       THEN RequestEnds(a, "MongoServerError")
       ELSE /\ session' = [session EXCEPT
                   ![a].deletedMetrics = {m},
                   ![a].deletedMany = CascadeDelete(userMetricCollection, m)]
            /\ rpc' = [rpc EXCEPT ![a] = "commit"]
            /\ UNCHANGED response
    /\ UNCHANGED << otherVars, storeVars, weightsCollection, score >>

\* POST /achievements: achievementService.createAchievement reads the
\* GameMetric and inserts the achievement in the session.
PostAchievements(a, posted) ==
    /\ Received(a, [op |-> "createAchievement", achievement |-> posted])
    /\ IF ReadGameMetric(metricCollection, posted.metricId) = << >>
       THEN RequestEnds(a, "NotFoundError")
       ELSE /\ session' = [session EXCEPT ![a].achievements =
                   << [id |-> InsertedAchievementId(a),
                       metricId |-> posted.metricId,
                       metricCount |-> posted.metricCount,
                       name |-> posted.name,
                       description |-> posted.description,
                       badgeUrl |-> posted.badgeUrl] >>]
            /\ rpc' = [rpc EXCEPT ![a] = "commit"]
            /\ UNCHANGED response
    /\ UNCHANGED << otherVars, storeVars, weightsCollection, score >>

\* POST /userachievements: createUserGameAchievement reads the user's
\* record in the session and, finding none, inserts one in the session.
PostUserAchievements(a) ==
    /\ Received(a, [op |-> "createUserGameAchievement"])
    /\ IF UserId \in DOMAIN userAchievementCollection
       THEN RequestEnds(a, "Error")
       ELSE /\ session' = [session EXCEPT ![a].records =
                   << [userId |-> UserId, achievements |-> << >>] >>]
            /\ rpc' = [rpc EXCEPT ![a] = "commit"]
            /\ UNCHANGED response
    /\ UNCHANGED << otherVars, storeVars, weightsCollection, score >>

\* POST /rules: RuleService.createRule reads the event, evaluates the
\* logic on the dummy payload and inserts the rule in the session.
PostRules(a, posted) ==
    /\ Received(a, [op |-> "createRule", rule |-> posted])
    /\ IF ReadEvent(eventsCollection, posted.eventId) = << >>
       THEN RequestEnds(a, "NotFoundError")
       ELSE IF IsRuleRejected(posted.logic,
                   DummyPayload(ReadEvent(eventsCollection, posted.eventId)[1]))
       THEN RequestEnds(a, "Error")
       ELSE /\ session' = [session EXCEPT ![a].rules =
                   << [id |-> InsertedRuleId(a), eventId |-> posted.eventId,
                       metricId |-> posted.metricId, logic |-> posted.logic] >>]
            /\ rpc' = [rpc EXCEPT ![a] = "commit"]
            /\ UNCHANGED response
    /\ UNCHANGED << otherVars, storeVars, weightsCollection, score >>

\* achievementCollection.updateOne({_id: achievementId}, {$set:
\* achievement}): the achievements with the fields of every matching one
\* replaced by the ones given.
UpdateAchievement(achs, updates) ==
    [i \in 1..Len(achs) |->
        IF achs[i].id \in DOMAIN updates
        THEN [id |-> achs[i].id,
              metricId |-> updates[achs[i].id].metricId,
              metricCount |-> updates[achs[i].id].metricCount,
              name |-> updates[achs[i].id].name,
              description |-> updates[achs[i].id].description,
              badgeUrl |-> updates[achs[i].id].badgeUrl]
        ELSE achs[i]]

\* PUT /achievements: AchievementService.updateAchievement reads the
\* GameMetric of the body (NotFoundError when there is none) and sets the
\* fields given on the achievement of the id (NotFoundError when no
\* achievement matches).  An update of an achievement another open
\* transaction has updated is a write conflict.
PutAchievements(a, posted) ==
    /\ Received(a, [op |-> "updateAchievement", achievement |-> posted])
    /\ IF ReadGameMetric(metricCollection, posted.metricId) = << >>
       THEN RequestEnds(a, "NotFoundError")
       ELSE IF \A i \in 1..Len(achievementCollection) :
                   achievementCollection[i].id # posted.achievementId
       THEN RequestEnds(a, "NotFoundError")
       ELSE IF \E b \in RequestIds \ {a} :
                   posted.achievementId \in DOMAIN session[b].achievementUpdates
       THEN RequestEnds(a, "MongoError")
       ELSE /\ session' = [session EXCEPT ![a].achievementUpdates =
                   posted.achievementId :> posted]
            /\ rpc' = [rpc EXCEPT ![a] = "commit"]
            /\ UNCHANGED response
    /\ UNCHANGED << otherVars, storeVars, weightsCollection, score >>

\* rulesCollection.updateOne({_id: ruleId}, {$set: rule}): the rules with
\* the fields of every matching rule replaced by the ones given.
UpdateRule(rules, updates) ==
    [i \in 1..Len(rules) |->
        IF rules[i].id \in DOMAIN updates
        THEN [id |-> rules[i].id,
              eventId |-> updates[rules[i].id].eventId,
              metricId |-> updates[rules[i].id].metricId,
              logic |-> updates[rules[i].id].logic]
        ELSE rules[i]]

\* PUT /rule: RuleService.updateRule sets the fields given on the rule of
\* the id inside a transaction; NotFoundError when no rule matches.  An
\* update of a rule another open transaction has updated is a write
\* conflict.
PutRule(a, posted) ==
    /\ Received(a, [op |-> "updateRule", rule |-> posted])
    /\ IF \A i \in 1..Len(rulesCollection) : rulesCollection[i].id # posted.ruleId
       THEN RequestEnds(a, "NotFoundError")
       ELSE IF \E b \in RequestIds \ {a} :
                   posted.ruleId \in DOMAIN session[b].ruleUpdates
       THEN RequestEnds(a, "MongoError")
       ELSE /\ session' = [session EXCEPT ![a].ruleUpdates =
                   posted.ruleId :> posted]
            /\ rpc' = [rpc EXCEPT ![a] = "commit"]
            /\ UNCHANGED response
    /\ UNCHANGED << otherVars, storeVars, weightsCollection, score >>

\* ScoringWeightsRepository.get: the weights it returns, the defaults when
\* there is no document.
Get(weights) ==
    IF GLOBAL_WEIGHTS_ID \in DOMAIN weights THEN weights[GLOBAL_WEIGHTS_ID]
    ELSE DefaultWeights

\* ScoringWeightsRepository.get: scoring_weights after it, the defaults
\* inserted when there was no document.
CreateDefaultWeights(weights) ==
    [id \in {GLOBAL_WEIGHTS_ID} |-> Get(weights)]

\* ScoringWeightsRepository.update: scoring_weights after
\* findOneAndUpdate({_id}, {$set: newWeights}, {upsert: true}); the fields
\* of the document are the stored ones and the supplied ones.
Update(weights, newWeights) ==
    LET stored == IF GLOBAL_WEIGHTS_ID \in DOMAIN weights
                  THEN DOMAIN weights[GLOBAL_WEIGHTS_ID] ELSE {}
    IN [id \in {GLOBAL_WEIGHTS_ID} |->
           [n \in stored \cup DOMAIN newWeights |->
               IF n \in DOMAIN newWeights THEN newWeights[n]
               ELSE weights[GLOBAL_WEIGHTS_ID][n]]]

\* PUT /weights: weightsCollection.findOneAndUpdate({$set: newWeights})
PutWeights(w) ==
    /\ weightsCollection' = Update(weightsCollection, w)
    /\ weightsCollection' # weightsCollection
    /\ UNCHANGED << otherVars, storeVars, rpc, request, session, response,
                    score >>

\* ScoringService.updateWeights(newWeights) with any part of the weights.
UpdateWeights(newWeights) ==
    /\ weightsCollection' = Update(weightsCollection, newWeights)
    /\ UNCHANGED << otherVars, storeVars, rpc, request, session, response,
                    score >>

\* ScoringService.getCurrentWeights.
GetCurrentWeights ==
    /\ weightsCollection' = CreateDefaultWeights(weightsCollection)
    /\ UNCHANGED << otherVars, storeVars, rpc, request, session, response,
                    score >>

\* POST /score up to the second read of the user's rows: getWeights,
\* getBasePoints, the bonus, the first read of the user's rows and the
\* points.  The reads are of collections the request does not write and
\* each is a transaction of its own.
PostScore(a, t) ==
    /\ Received(a, [op |-> "calculateScore", attempt |-> t])
    /\ IF t.totalScore = << >> \/ t.totalScore = << 0 >>
       THEN /\ RequestEnds(a, "NotFoundError")
            /\ UNCHANGED score
       ELSE LET weights == Get(weightsCollection)
                basePoints == t.totalScore[1]
                bonus == Bonus(t, weights)
                currentPoints == CurrentPoints(userMetricCollection, t.metricId)
                pointsAdded == PointsAdded(t, basePoints, bonus)
            IN /\ score' = [score EXCEPT ![a] =
                      [confidenceScore |->
                           CalculateConfidenceScore(t.grades, weights),
                       bonus |-> bonus,
                       currentPoints |-> currentPoints,
                       pointsAdded |-> pointsAdded,
                       finalPoints |-> currentPoints + pointsAdded]]
               /\ rpc' = [rpc EXCEPT ![a] = "readUserGameMetrics"]
               /\ UNCHANGED << session, response >>
    /\ weightsCollection' = CreateDefaultWeights(weightsCollection)
    /\ UNCHANGED << otherVars, storeVars >>

\* calculateScore reads the user's rows again and either updates the row
\* of the attempt's metric or, finding none, creates it.
ScoreReadUserGameMetrics(a) ==
    /\ rpc[a] = "readUserGameMetrics"
    /\ rpc' = [rpc EXCEPT ![a] =
           IF request[a].attempt.metricId \in DOMAIN userMetricCollection
           THEN "updateUserGameMetric" ELSE "createUserGameMetric"]
    /\ UNCHANGED << otherVars, storeVars, weightsCollection, request,
                    session, response, score >>

\* calculateScore calls updateUserGameMetric with value: finalPoints; its
\* NotFoundError is caught and answered by createUserGameMetric.
ScoreUpdateUserGameMetric(a) ==
    /\ rpc[a] = "updateUserGameMetric"
    /\ IF ReadUserGameMetric(userMetricCollection, RowOf(a).metricId) = << >>
       THEN /\ rpc' = [rpc EXCEPT ![a] = "createUserGameMetric"]
            /\ UNCHANGED << session, response >>
       ELSE UpdateUserGameMetric(a, RowOf(a))
    /\ UNCHANGED << otherVars, storeVars, weightsCollection, request, score >>

\* calculateScore calls createUserGameMetric with value: finalPoints.
ScoreCreateUserGameMetric(a) ==
    /\ rpc[a] = "createUserGameMetric"
    /\ CreateUserGameMetric(a, RowOf(a))
    /\ UNCHANGED << otherVars, storeVars, weightsCollection, request, score >>

\* _withTransaction when the callback of request a returns: the writes of
\* its session are committed together.
RequestCommit(a) ==
    /\ rpc[a] = "commit"
    /\ LET s == session[a]
           gone == s.deletedOne \cup s.deletedMany
           kept == [m \in DOMAIN userMetricCollection \ gone |->
                       IF m \in DOMAIN s.updated
                       THEN s.updated[m] ELSE userMetricCollection[m]]
           fresh == [m \in DOMAIN s.inserted \ DOMAIN kept |-> s.inserted[m]]
           second == DOMAIN s.inserted \cap DOMAIN kept
       IN /\ userMetricCollection' = fresh @@ kept
          /\ userMetricDuplicates' =
                 LET left == SelectSeq(userMetricDuplicates,
                                 LAMBDA d : d.metricId \notin s.deletedMany)
                 IN IF second = {}
                    THEN left
                    ELSE LET m == CHOOSE m \in second : TRUE
                         IN Append(left, [metricId |-> m,
                                          value |-> s.inserted[m]])
          /\ metricCollection' =
                 [m \in DOMAIN metricCollection \ s.deletedMetrics |->
                     metricCollection[m]]
          /\ achievementCollection' =
                 UpdateAchievement(achievementCollection, s.achievementUpdates)
                     \o s.achievements
          /\ rulesCollection' =
                 UpdateRule(rulesCollection, s.ruleUpdates) \o s.rules
          /\ IF s.records = << >>
             THEN UNCHANGED << userAchievementCollection,
                               userAchievementDuplicates >>
             ELSE IF UserId \in DOMAIN userAchievementCollection
             THEN /\ userAchievementDuplicates' =
                         userAchievementDuplicates \o s.records
                  /\ UNCHANGED userAchievementCollection
             ELSE /\ userAchievementCollection' =
                         (UserId :> s.records[1].achievements)
                             @@ userAchievementCollection
                  /\ UNCHANGED userAchievementDuplicates
    /\ RequestEnds(a, "ok")
    /\ UNCHANGED << otherVars, weightsCollection, request, score >>

\* The storage layer aborts the transaction of a request that is suspended
\* at one of its storage calls or at the commit.
RequestAbort(a) ==
    /\ rpc[a] \in {"insertOne", "commit"}
    /\ RequestEnds(a, "MongoError")
    /\ UNCHANGED << otherVars, storeVars, weightsCollection, request, score >>

Next ==
    \/ \E c \in Calls, r \in Requests : Begin(c, r)
    \/ \E c \in Calls : BulkWrite(c)
    \/ \E c \in Calls, k \in 0..MaxMetrics : BulkWriteError(c, k)
    \/ \E c \in Calls : FindUserMetrics(c)
    \/ \E c \in Calls, t \in 0..MaxTime : UpdateUserAchievements(c, t)
    \/ \E c \in Calls : Commit(c)
    \/ \E c \in Calls : Abort(c)
    \/ CreateUserGameAchievement

Spec == Init /\ [][Next]_vars

\* metricTrigger requests of one user on a store that holds the rows and
\* the achievements record of another.
UsersInit ==
    /\ userMetricCollection = NoRows
    /\ userAchievementCollection = OtherUserAchievements
    /\ otherUserMetricCollection = OtherUserMetrics
    /\ CallsIdle
    /\ eventsCollection = InitialEvents
    /\ rulesCollection = InitialRules
    /\ LayerIdle
    /\ AdminIdle

UsersSpec == UsersInit /\ [][Next]_vars

\* The event layer: the rules are found in either order.
EventInit ==
    /\ EngineInit
    /\ eventsCollection = InitialEvents
    /\ rulesCollection \in {InitialRules, Reverse(InitialRules)}
    /\ LayerIdle
    /\ AdminIdle

EventNext ==
    \/ \E c \in Triggers, e \in EventIds, p \in Payloads : EventTrigger(c, e, p)
    \/ \E c \in Triggers : EventTriggerReturn(c)
    \/ \E c \in Triggers : EventTriggerAbort(c)
    \/ \E c \in Calls : BulkWrite(c)
    \/ \E c \in Calls, k \in 0..MaxMetrics : BulkWriteError(c, k)
    \/ \E c \in Calls : FindUserMetrics(c)
    \/ \E c \in Calls, t \in 0..MaxTime : UpdateUserAchievements(c, t)
    \/ \E c \in Calls : Commit(c)
    \/ \E c \in Calls : Abort(c)
    \/ CreateUserGameAchievement
    \/ \E e \in EventIdParams : DeleteEventBegin(e)
    \/ DeleteRulesByEventId
    \/ DeleteEvent
    \/ DeleteEventCommit
    \/ DeleteEventAbort

EventSpec == EventInit /\ [][EventNext]_vars

\* The administration and scoring requests next to one metricTrigger
\* request.
AdminNext ==
    \/ \E r \in ConcurrentRequests : Begin(1, r)
    \/ \E c \in Calls : BulkWrite(c)
    \/ \E c \in Calls, k \in 0..MaxMetrics : BulkWriteError(c, k)
    \/ \E c \in Calls : FindUserMetrics(c)
    \/ \E c \in Calls, t \in 0..MaxTime : UpdateUserAchievements(c, t)
    \/ \E c \in Calls : Commit(c)
    \/ \E c \in Calls : Abort(c)
    \/ \E a \in RequestIds, posted \in UserGameMetricBodies : PostUserMetrics(a, posted)
    \/ \E a \in RequestIds : InsertOne(a)
    \/ \E a \in RequestIds, posted \in UserGameMetricBodies : PutUserMetrics(a, posted)
    \/ \E a \in RequestIds, m \in RequestMetricIds : DeleteUserMetrics(a, m)
    \/ \E a \in RequestIds, m \in RequestMetricIds : DeleteMetrics(a, m)
    \/ \E a \in RequestIds, posted \in MetricAchievementBodies : PostAchievements(a, posted)
    \/ \E a \in RequestIds, posted \in UpdateMetricAchievementBodies :
          PutAchievements(a, posted)
    \/ \E a \in RequestIds : PostUserAchievements(a)
    \/ \E a \in RequestIds, posted \in RuleBodies : PostRules(a, posted)
    \/ \E a \in RequestIds, posted \in UpdateRuleBodies : PutRule(a, posted)
    \/ \E a \in RequestIds, t \in ConcurrentAttempts : PostScore(a, t)
    \/ \E a \in RequestIds : ScoreReadUserGameMetrics(a)
    \/ \E a \in RequestIds : ScoreUpdateUserGameMetric(a)
    \/ \E a \in RequestIds : ScoreCreateUserGameMetric(a)
    \/ \E a \in RequestIds : RequestCommit(a)
    \/ \E a \in RequestIds : RequestAbort(a)

AdminSpec == Init /\ [][AdminNext]_vars

\* One scoring request on any quiz attempt under either weights document,
\* next to a request that creates the row of the attempt's metric.
ScoreInit ==
    /\ EngineInit
    /\ eventsCollection = InitialEvents
    /\ rulesCollection = InitialRules
    /\ LayerIdle
    /\ AdminIdle

ScoreNext ==
    \/ \E t \in QuizAttempts : PostScore(1, t)
    \/ \E w \in WeightsBodies : PutWeights(w)
    \/ \E posted \in UserGameMetricBodies : PostUserMetrics(2, posted)
    \/ \E a \in RequestIds : ScoreReadUserGameMetrics(a)
    \/ \E a \in RequestIds : ScoreUpdateUserGameMetric(a)
    \/ \E a \in RequestIds : ScoreCreateUserGameMetric(a)
    \/ \E a \in RequestIds : InsertOne(a)
    \/ \E a \in RequestIds : RequestCommit(a)
    \/ \E a \in RequestIds : RequestAbort(a)

ScoreSpec == ScoreInit /\ [][ScoreNext]_vars

\* ScoringService.updateWeights and getCurrentWeights called in any order
\* on a store that starts without a weights document.
WeightsInit ==
    /\ EngineInit
    /\ eventsCollection = InitialEvents
    /\ rulesCollection = InitialRules
    /\ LayerIdle
    /\ AdminIdle

WeightsNext ==
    \/ \E newWeights \in PartialWeights : UpdateWeights(newWeights)
    \/ GetCurrentWeights

WeightsSpec == WeightsInit /\ [][WeightsNext]_vars

\* ------------------------------------------------------------ claims
\* achievementIds stored for user u.
StoredAchievementIds(u) ==
    IF u \in DOMAIN userAchievementCollection
    THEN {userAchievementCollection[u][i].achievementId :
             i \in 1..Len(userAchievementCollection[u])}
    ELSE {}

\* Ids of a list of achievement documents.
IdsOf(achs) == {achs[i].id : i \in 1..Len(achs)}

\* The increment request items ms hold for metric m, over their first n items.
RECURSIVE IncrementOf(_, _, _)
IncrementOf(ms, m, n) ==
    IF n = 0 THEN 0
    ELSE IncrementOf(ms, m, n - 1)
         + (IF ms[n].metricId = m THEN ms[n].value[1] ELSE 0)

\* Sum of the resolved increments for m of the committed calls among 1..n.
RECURSIVE CommittedIncrements(_, _)
CommittedIncrements(m, n) ==
    IF n = 0 THEN 0
    ELSE CommittedIncrements(m, n - 1)
         + (IF result[n] = "ok"
            THEN IncrementOf(metrics[n], m, Len(metrics[n])) ELSE 0)

\* No call is in flight.
Quiescent == \A c \in Calls : pc[c] \in {"idle", "done"}

\* Call c is the only call that has started.
OnlyCall(c) == \A d \in Calls \ {c} : pc[d] = "idle"

\* Nothing is stored for the user beyond an empty achievements record.
NothingStored ==
    /\ userMetricCollection = NoRows
    /\ StoredAchievementIds(UserId) = {}

\* C1: after any sequence of metricTrigger calls that all succeeded, the
\* stored achievements of a user hold at most one entry per achievementId.
C1_OneEntryPerAchievementId ==
    (\A c \in Calls : pc[c] = "idle" \/ result[c] = "ok") =>
    \A u \in DOMAIN userAchievementCollection :
        \A i, j \in 1..Len(userAchievementCollection[u]) :
            userAchievementCollection[u][i].achievementId
                = userAchievementCollection[u][j].achievementId => i = j

\* C2: every achievement a successful metricTrigger reported as unlocked is
\* in the user's stored achievements, the record being created when the user
\* had none.
C2_UnlockedAchievementIsStored ==
    \A c \in Calls :
        result[c] = "ok" =>
            /\ UserId \in DOMAIN userAchievementCollection
            /\ IdsOf(achievementsUnlocked[c]) \subseteq StoredAchievementIds(UserId)

\* C3: the step in which a call's bulk increment fails, after any number of
\* its operations were applied, leaves every stored UserGameMetric and the
\* stored achievements as they were.
C3_FailedBulkWriteChangesNothing ==
    [][\A c \in Calls :
          (pc[c] = "bulkWrite" /\ result'[c] = "MongoBulkWriteError") =>
              /\ userMetricCollection' = userMetricCollection
              /\ userAchievementCollection' = userAchievementCollection]_vars

\* C3 witness.
C3_Witness ==
    \E c \in Calls :
        /\ result[c] = "MongoBulkWriteError"
        /\ updateResult[c] >= 1
        /\ Len(body[c]) = 2

\* C4: when the only call that has run ended with its transaction aborted,
\* the user's metric rows and stored achievements are as before the call:
\* none.
C4_AbortedCallLeavesNothing ==
    \A c \in Calls :
        (OnlyCall(c) /\ result[c] = "MongoError") => NothingStored

\* C5: once no call is in flight, every UserGameMetric value is the sum of
\* the resolved increments of the committed calls for that metric, and a
\* row exists exactly for the metrics a committed call named.
C5_NoLostOrRepeatedIncrement ==
    Quiescent =>
        \A m \in MetricIds :
            /\ RowValue(userMetricCollection, m) = CommittedIncrements(m, MaxCalls)
            /\ m \in DOMAIN userMetricCollection
                   <=> \E c \in Calls :
                          result[c] = "ok" /\ m \in MetricIdsOf(metrics[c])

\* C5 witness.
C5_Witness ==
    /\ \A c \in Calls : result[c] = "ok" /\ "m1" \in MetricIdsOf(metrics[c])
    /\ \A c \in Calls : IncrementOf(metrics[c], "m1", Len(metrics[c])) > 0

\* C6: the rows a call re-read after its bulk increment hold, for every
\* requested metric, the committed value plus the call's own increment, as
\* long as the call is in flight: its own write is seen, no uncommitted
\* write of another call is. The re-read always finds the rows the call
\* wrote, so "No metrics updated" is only ever the answer to an unknown
\* metricId.
C6_ReReadSeesOwnIncrementOnly ==
    \A c \in Calls :
      /\ result[c] = "BadRequestError" =>
            ~(MetricIdsOf(body[c]) \subseteq DOMAIN metricCollection)
      /\ pc[c] \in {"updateAchievements", "commit"} =>
            /\ {mu.metricId : mu \in metricsUpdated[c]} = MetricIdsOf(metrics[c])
            /\ \A mu \in metricsUpdated[c] :
                  mu.value = RowValue(userMetricCollection, mu.metricId)
                             + IncrementOf(metrics[c], mu.metricId, Len(metrics[c]))

\* C6 witness.
C6_Witness ==
    \E c, d \in Calls :
        /\ c # d
        /\ pc[c] = "commit"
        /\ \E mu \in metricsUpdated[c] : mu.value # 0
        /\ writes[d] # NoRows

\* C7: the commit of a successful call raises each requested metric by the
\* GameMetric's defaultIncrementValue when the item's value is unset and by
\* the item's value otherwise.
C7_DefaultSubstitution ==
    [][\A c \in Calls :
          (pc[c] = "commit" /\ result'[c] = "ok") =>
              \A i \in 1..Len(body[c]) :
                  LET m == body[c][i].metricId IN
                  /\ m \in DOMAIN userMetricCollection'
                  /\ userMetricCollection'[m] - RowValue(userMetricCollection, m)
                        = IF body[c][i].value = Unset
                          THEN metricCollection[m]
                          ELSE body[c][i].value[1]]_vars

\* C7 witness.
C7_Witness ==
    \E c \in Calls :
        /\ result[c] = "ok"
        /\ \E i, j \in 1..Len(body[c]) :
              /\ body[c][i].value = Unset
              /\ body[c][j].value \in {<< 0 >>, << -1 >>}

\* C8: a call whose metrics name the same metricId twice ends at once with
\* a validation error, writes nothing and, when it is the only call, leaves
\* nothing stored.
C8_DuplicateIsValidationError ==
    \A c \in Calls :
        (pc[c] # "idle" /\ HasDuplicateIds(body[c])) =>
            /\ pc[c] = "done"
            /\ result[c] = "BadRequestError"
            /\ writes[c] = NoRows
            /\ OnlyCall(c) => NothingStored

\* C9: a call naming a metricId that references no GameMetric ends at once
\* with an error, writes nothing, unlocks nothing and, when it is the only
\* call, leaves nothing stored; no row is ever stored for such a metricId.
C9_UnknownMetricRejected ==
    /\ DOMAIN userMetricCollection \subseteq DOMAIN metricCollection
    /\ \A c \in Calls :
          (pc[c] # "idle" /\ ~(MetricIdsOf(body[c]) \subseteq DOMAIN metricCollection)) =>
              /\ pc[c] = "done"
              /\ result[c] \in {"BadRequestError", "NotFoundError"}
              /\ writes[c] = NoRows
              /\ achievementsUnlocked[c] = << >>
              /\ OnlyCall(c) => NothingStored

\* C9 witness.
C9_Witness ==
    \E c \in Calls :
        /\ result[c] = "BadRequestError"
        /\ \E i, j \in 1..Len(body[c]) :
              /\ body[c][i].metricId = "m3"
              /\ body[c][j].metricId = "m1"
              /\ body[c][j].value = << 3 >>
        /\ \E d \in Calls : result[d] = "ok"

\* C10: the achievements a call matched, and returns when it succeeds, are
\* exactly those whose metricId is requested and whose metricCount is at
\* most the post-increment value of that metric.
C10_UnlockedAreExactlyTheQualifying ==
    \A c \in Calls :
        /\ pc[c] \in {"updateAchievements", "commit"} =>
              IdsOf(achievementsUnlocked[c]) =
                  {achievementCollection[i].id : i \in
                      {k \in 1..Len(achievementCollection) :
                          LET a == achievementCollection[k] IN
                          /\ a.metricId \in MetricIdsOf(body[c])
                          /\ a.metricCount <=
                                RowValue(userMetricCollection, a.metricId)
                                + IncrementOf(metrics[c], a.metricId, Len(metrics[c]))}}
        /\ result[c] = "ok" =>
              IdsOf(achievementsUnlocked[c]) =
                  {achievementCollection[i].id : i \in
                      {k \in 1..Len(achievementCollection) :
                          LET a == achievementCollection[k] IN
                          \E mu \in metricsUpdated[c] :
                              /\ mu.metricId \in MetricIdsOf(body[c])
                              /\ a.metricId = mu.metricId
                              /\ a.metricCount <= mu.value}}

\* C10 witness.
C10_Witness ==
    /\ \A c \in Calls : result[c] = "ok" /\ "a1" \in IdsOf(achievementsUnlocked[c])
    /\ \E c \in Calls :
          /\ "m2" \notin MetricIdsOf(body[c])
          /\ "a3" \notin IdsOf(achievementsUnlocked[c])
    /\ "m2" \in DOMAIN userMetricCollection
    /\ RowValue(userMetricCollection, "m2") >= 1

\* C11: every entry of achievementsUnlocked in the response of a successful
\* metricTrigger carries the achievement's name, description and badgeUrl
\* and a defined unlockedAt, which is the unlockedAt of the entry the call
\* wrote to the user's stored achievements.
C11_ResponseCarriesUnlockTime ==
    \A c \in Calls :
        result[c] = "ok" =>
            \A i \in 1..Len(achievementsUpdated[c]) :
                LET entry == achievementsUpdated[c][i]
                    ach == achievementsUnlocked[c][i]
                IN /\ entry.achievementId = ach.id
                   /\ entry.name = << ach.name >>
                   /\ entry.description = << ach.description >>
                   /\ entry.badgeUrl = << ach.badgeUrl >>
                   /\ entry.unlockedAt # Unset
                   /\ entry.achievementId \in StoredAchievementIds(UserId) =>
                         \E j \in 1..Len(userAchievementCollection[UserId]) :
                            /\ userAchievementCollection[UserId][j].achievementId
                                  = entry.achievementId
                            /\ << userAchievementCollection[UserId][j].unlockedAt >>
                                  = entry.unlockedAt

\* C12: the step in which a metricTrigger succeeds returns in
\* metricsUpdated exactly one entry per requested metricId, whose value is
\* the user's value for the metric before the step (0 when there was no
\* row) plus the resolved increment, and leaves a row for each of them.
C12_MetricsUpdatedArePreviousPlusIncrement ==
    [][\A c \in Calls :
          (pc[c] = "commit" /\ result'[c] = "ok") =>
              /\ Cardinality(metricsUpdated[c]) = Len(body[c])
              /\ \A i \in 1..Len(body[c]) :
                    LET m == body[c][i].metricId
                        previous == IF m \in DOMAIN userMetricCollection
                                    THEN userMetricCollection[m] ELSE 0
                    IN /\ [metricId |-> m,
                           value |-> previous + metrics[c][i].value[1]]
                              \in metricsUpdated[c]
                       /\ m \in DOMAIN userMetricCollection'
                       /\ userMetricCollection'[m]
                              = previous + metrics[c][i].value[1]]_vars

\* C12 witness.
C12_Witness ==
    \E c, d \in Calls :
        /\ c # d
        /\ result[c] = "ok" /\ result[d] = "ok"
        /\ Len(body[c]) = 2
        /\ MetricIdsOf(body[d]) = {"m1"}
        /\ metricsUpdated[d] # metricsUpdated[c]
        /\ \E mu \in metricsUpdated[c] : mu.metricId = "m1" /\ mu.value = 5

\* The eventPayload schema of event e as created.
SchemaOf(e) == InitialEvents[e]

\* Every present value of payload has the runtime type its key is declared with.
WellTyped(e, payload) ==
    \A key \in DOMAIN payload \cap DOMAIN SchemaOf(e) :
        payload[key].type = SchemaOf(e)[key]

\* The rules of event e whose logic evaluates truthy on payload.
TruthyRules(e, payload) ==
    {i \in 1..Len(InitialRules) :
        /\ InitialRules[i].eventId = e
        /\ Truthy(Apply(InitialRules[i].logic, payload))}

\* The metrics of the truthy rules of trigger c.
TruthyMetrics(c) ==
    {InitialRules[i].metricId :
        i \in TruthyRules(trigger[c].eventId, trigger[c].eventPayload)}

\* Event e has a rule.
HasRules(e) == \E i \in 1..Len(InitialRules) : InitialRules[i].eventId = e

\* eventTrigger c ended on a failure of the store or on an event that was
\* deleted before it was read.
StoreFailed(c) ==
    tresult[c] \in {"MongoError", "MongoBulkWriteError", "NotFoundError"}

\* C13: an eventTrigger whose payload has a key the event's schema does not
\* declare is rejected without calling metricTrigger and with nothing
\* stored; one whose keys are all declared and whose present values are of
\* the declared types is not rejected for its payload.
C13_PayloadKeysChecked ==
    \A c \in Triggers :
        (tpc[c] # "idle" /\ trigger[c].eventId \in DOMAIN InitialEvents) =>
            LET e == trigger[c].eventId
                p == trigger[c].eventPayload
            IN /\ ~(DOMAIN p \subseteq DOMAIN SchemaOf(e)) =>
                     /\ tresult[c] \in {"Error", "NotFoundError"}
                     /\ pc[c] = "idle"
                     /\ NothingStored
               /\ (DOMAIN p \subseteq DOMAIN SchemaOf(e) /\ WellTyped(e, p)) =>
                     tresult[c] # "Error"

\* C14: an eventTrigger whose payload keys are all declared is rejected for
\* its payload exactly when some present value's runtime type is not the
\* tag its key is declared with.
C14_TypeCheckByTag ==
    \A c \in Triggers :
        (/\ tpc[c] # "idle"
         /\ trigger[c].eventId \in DOMAIN InitialEvents
         /\ DOMAIN trigger[c].eventPayload \subseteq DOMAIN SchemaOf(trigger[c].eventId)
         /\ tresult[c] # "NotFoundError") =>
            (tresult[c] = "Error"
                <=> ~WellTyped(trigger[c].eventId, trigger[c].eventPayload))

\* C15: once no eventTrigger is in flight, every metric of the user stands
\* at its defaultIncrementValue once for each eventTrigger with a truthy
\* rule for it whose metricTrigger committed (every successful one), and
\* has no row when there is none, in whichever order the rules are read.
C15_TruthyRulesIncrementTheirMetric ==
    (\A c \in Triggers : tpc[c] \in {"idle", "done"}) =>
        \A m \in MetricIds :
            LET hits == {c \in Triggers :
                            /\ tpc[c] = "done"
                            /\ result[c] = "ok"
                            /\ m \in TruthyMetrics(c)}
            IN /\ m \in DOMAIN userMetricCollection <=> hits # {}
               /\ hits # {} =>
                     userMetricCollection[m] = Cardinality(hits) * metricCollection[m]

\* C15 witness.
C15_Witness ==
    \E c \in Triggers :
        /\ tresult[c] = "ok"
        /\ trigger[c].eventId = "e1"
        /\ TruthyMetrics(c) = {"m2"}
        /\ rulesCollection = Reverse(InitialRules)
        /\ "m1" \notin DOMAIN userMetricCollection

\* C16: an eventTrigger for which two truthy rules of the event name the
\* same metric succeeds, and the metric is raised once per rule.
C16_SharedMetricIncrementedPerRule ==
    \A c \in Triggers :
        (/\ tpc[c] = "done"
         /\ ~StoreFailed(c)
         /\ tresult[c] # "Error"
         /\ \E i, j \in TruthyRules(trigger[c].eventId, trigger[c].eventPayload) :
               i # j /\ InitialRules[i].metricId = InitialRules[j].metricId) =>
            /\ tresult[c] = "ok"
            /\ \A m \in TruthyMetrics(c) :
                  /\ m \in DOMAIN userMetricCollection
                  /\ userMetricCollection[m] >= 2 * metricCollection[m]

\* C17: the step of an eventTrigger that finds the event, accepts the
\* payload and finds rules none of which is truthy returns the empty
\* response at once: no error, metricTrigger not called, no stored metric
\* and no stored achievement changed.
C17_NoTruthyRuleIsANoOp ==
    [][\A c \in Triggers :
          (/\ tpc[c] = "idle" /\ tpc'[c] # "idle"
           /\ tresult'[c] \notin {"Error", "NotFoundError"}
           /\ TruthyRules(trigger'[c].eventId, trigger'[c].eventPayload) = {}) =>
              /\ tpc'[c] = "done"
              /\ tresult'[c] = "ok"
              /\ pc'[c] = "idle"
              /\ metricsUpdated'[c] = {}
              /\ achievementsUpdated'[c] = << >>
              /\ userMetricCollection' = userMetricCollection
              /\ userAchievementCollection' = userAchievementCollection]_vars

\* C17 witness.
C17_Witness ==
    \E c \in Triggers :
        /\ tresult[c] = "ok"
        /\ pc[c] = "idle"
        /\ trigger[c].eventId = "e1"
        /\ DOMAIN trigger[c].eventPayload = {"meta"}
        /\ userMetricCollection = NoRows

\* C18: an eventTrigger naming no Event ends with NotFound, one naming an
\* Event without rules ends with NotFound, and one whose payload fails the
\* key or type check ends with a validation error (a bad request), which
\* is neither NotFound nor an internal error; each leaves nothing stored.
C18_FailuresAreNotFoundOrValidation ==
    \A c \in Triggers :
        tpc[c] # "idle" =>
            LET e == trigger[c].eventId
                p == trigger[c].eventPayload
            IN /\ e \notin DOMAIN InitialEvents =>
                     tresult[c] = "NotFoundError" /\ NothingStored
               /\ (e \in DOMAIN InitialEvents /\ ~HasRules(e)
                      /\ IsKeysValid(SchemaOf(e), p) /\ IsValueValid(SchemaOf(e), p)) =>
                     tresult[c] = "NotFoundError" /\ NothingStored
               /\ (e \in DOMAIN InitialEvents /\ tresult[c] # "NotFoundError"
                      /\ ~(IsKeysValid(SchemaOf(e), p) /\ IsValueValid(SchemaOf(e), p))) =>
                     tresult[c] = "BadRequestError" /\ NothingStored

\* C19: an eventTrigger with a payload the event accepts, on an event that
\* has a rule, succeeds unless the store fails.
C19_ValidTriggerSucceeds ==
    \A c \in Triggers :
        (/\ tpc[c] = "done"
         /\ trigger[c].eventId \in DOMAIN InitialEvents
         /\ HasRules(trigger[c].eventId)
         /\ tresult[c] # "Error"
         /\ ~StoreFailed(c)) =>
            tresult[c] = "ok"

\* Ids of the committed rules that reference event e.
RulesReferencing(e) ==
    {rulesCollection[i].id :
        i \in {k \in 1..Len(rulesCollection) : rulesCollection[k].eventId = e}}

Begins(a, op) ==
    rpc[a] = "idle" /\ rpc'[a] # "idle" /\ request'[a].op = op

\* No administration or scoring request is in flight.
RequestsQuiescent == \A a \in RequestIds : rpc[a] \in {"idle", "done"}

\* Rows of the user, of either kind, whose metricId is m.
RowsReferencing(rows, duplicates, m) ==
    (IF m \in DOMAIN rows THEN 1 ELSE 0)
        + Cardinality({i \in 1..Len(duplicates) : duplicates[i].metricId = m})

\* C21: once deleteGameMetric(M) has succeeded no UserGameMetric row
\* references M, and deleting a metric that does not exist fails with
\* NotFound and deletes no UserGameMetric row.
C21_DeletedMetricLeavesNoRow ==
    [][\A a \in RequestIds :
          /\ (/\ rpc'[a] = "done"
              /\ request'[a].op = "deleteGameMetric"
              /\ response'[a] = "ok") =>
                 RowsReferencing(userMetricCollection', userMetricDuplicates',
                                 request'[a].metricId) = 0
          /\ (/\ Begins(a, "deleteGameMetric")
              /\ request'[a].metricId \notin DOMAIN metricCollection) =>
                 /\ response'[a] = "NotFoundError"
                 /\ userMetricCollection' = userMetricCollection
                 /\ userMetricDuplicates' = userMetricDuplicates]_vars

\* C22: in every reachable state there is at most one UserGameMetric row
\* per (userId, metricId) pair.
C22_OneRowPerUserAndMetric ==
    \A m \in MetricIds :
        RowsReferencing(userMetricCollection, userMetricDuplicates, m) <= 1

\* C22 witness.
C22_Witness ==
    \E a, b \in RequestIds :
        /\ request[a].op = "createUserGameMetric"
        /\ request[b].op = "createUserGameMetric"
        /\ request[a].body.metricId = request[b].body.metricId
        /\ response[a] = "ok"
        /\ response[b] = "MongoServerError"

\* C23: in every reachable state there is at most one UserGameAchievement
\* record per user, also when two createUserGameAchievement calls for the
\* user run concurrently.
C23_OneRecordPerUser ==
    (IF UserId \in DOMAIN userAchievementCollection THEN 1 ELSE 0)
        + Len(userAchievementDuplicates) <= 1

\* C24: createRule with an eventId that references no Event fails with
\* NotFoundError and stores no rule.
C24_RuleOfUnknownEventIsNotFound ==
    [][\A a \in RequestIds :
          (/\ Begins(a, "createRule")
           /\ request'[a].rule.eventId \notin DOMAIN eventsCollection) =>
              /\ rpc'[a] = "done"
              /\ response'[a] = "NotFoundError"
              /\ session'[a].rules = << >>
              /\ rulesCollection' = rulesCollection]_vars

\* C24 witness.
C24_Witness ==
    \E a \in RequestIds :
        /\ request[a].op = "createRule"
        /\ request[a].rule.eventId \notin DOMAIN eventsCollection
        /\ response[a] = "NotFoundError"
        /\ rulesCollection = InitialRules

\* The dummy value createRule is to choose for a type tag.
DummyValue(tag) ==
    CASE tag = "string" -> JsonValue("string", 0)
      [] tag = "number" -> JsonValue("number", 0)
      [] tag = "boolean" -> JsonValue("boolean", 0)
      [] tag = "array" -> JsonValue("array", 0)
      [] tag = "object" -> JsonValue("object", 0)

\* The evaluator throws on the rule of request a, evaluated on one dummy
\* value per field the rule's event declares.
ThrowsOnDummy(rule) ==
    ApplyThrows(rule.logic,
                [key \in DOMAIN eventsCollection[rule.eventId] |->
                    DummyValue(eventsCollection[rule.eventId][key])])

\* The rule of request a is among the stored rules.
RuleStored(a) ==
    \E i \in 1..Len(rulesCollection) :
        /\ rulesCollection[i].eventId = request[a].rule.eventId
        /\ rulesCollection[i].metricId = request[a].rule.metricId
        /\ rulesCollection[i].logic = request[a].rule.logic
        /\ rulesCollection[i].id = InsertedRuleId(a)

\* C25: createRule for an existing event rejects the rule without storing
\* it when the evaluator throws on the dummy payload, and otherwise stores
\* it whatever the evaluation yields (a storage failure aside).
C25_RuleStoredUnlessEvaluatorThrows ==
    \A a \in RequestIds :
        (/\ rpc[a] = "done"
         /\ request[a].op = "createRule"
         /\ request[a].rule.eventId \in DOMAIN eventsCollection) =>
            IF ThrowsOnDummy(request[a].rule)
            THEN response[a] = "Error" /\ ~RuleStored(a)
            ELSE \/ response[a] = "ok" /\ RuleStored(a)
                 \/ response[a] = "MongoError" /\ ~RuleStored(a)

\* C25 witness.
C25_Witness ==
    /\ \E a \in RequestIds :
          /\ request[a].op = "createRule"
          /\ response[a] = "ok"
          /\ RuleStored(a)
          /\ ~Truthy(Apply(request[a].rule.logic,
                           DummyPayload(eventsCollection[request[a].rule.eventId])))
    /\ \E a \in RequestIds :
          /\ request[a].op = "createRule"
          /\ request[a].rule.eventId \in DOMAIN eventsCollection
          /\ response[a] = "Error"

\* C26: createAchievement with a metricId that references no GameMetric
\* fails with NotFoundError and stores no achievement.
C26_AchievementOfUnknownMetricIsNotFound ==
    [][\A a \in RequestIds :
          (/\ Begins(a, "createAchievement")
           /\ request'[a].achievement.metricId \notin DOMAIN metricCollection) =>
              /\ rpc'[a] = "done"
              /\ response'[a] = "NotFoundError"
              /\ session'[a].achievements = << >>
              /\ achievementCollection' = achievementCollection]_vars

\* C26 witness.
C26_Witness ==
    \E a \in RequestIds :
        /\ request[a].op = "createAchievement"
        /\ request[a].achievement.metricId \notin DOMAIN metricCollection
        /\ response[a] = "NotFoundError"
        /\ achievementCollection = InitialAchievements

\* Request a calls createUserGameMetric in this step.
CallsCreateUserGameMetric(a) ==
    \/ Begins(a, "createUserGameMetric")
    \/ rpc[a] = "createUserGameMetric" /\ rpc'[a] # "createUserGameMetric"

\* The metricId of the row request a is to create.
CreatedMetricId(a) ==
    IF request'[a].op = "calculateScore"
    THEN request'[a].attempt.metricId
    ELSE request'[a].body.metricId

\* C27: createUserGameMetric fails with NotFoundError when the metricId
\* references no GameMetric and fails when the user has a row of the
\* metric; in both cases no row is created or modified.
C27_CreateUserGameMetricRejects ==
    [][\A a \in RequestIds :
          CallsCreateUserGameMetric(a) =>
             /\ CreatedMetricId(a) \notin DOMAIN metricCollection =>
                   response'[a] = "NotFoundError"
             /\ (\/ CreatedMetricId(a) \notin DOMAIN metricCollection
                 \/ CreatedMetricId(a) \in DOMAIN userMetricCollection) =>
                   /\ rpc'[a] = "done"
                   /\ response'[a] \notin {"pending", "ok"}
                   /\ session'[a] = NoSession
                   /\ userMetricCollection' = userMetricCollection
                   /\ userMetricDuplicates' = userMetricDuplicates]_vars

\* C27 witness.
C27_Witness ==
    /\ \E a \in RequestIds :
          /\ request[a].op = "createUserGameMetric"
          /\ response[a] = "Error"
          /\ request[a].body.metricId \in DOMAIN userMetricCollection
          /\ userMetricCollection[request[a].body.metricId] # request[a].body.value
    /\ \E a \in RequestIds :
          /\ request[a].op = "createUserGameMetric"
          /\ response[a] = "NotFoundError"

\* calculateScore of request a computes its points in this step.
ComputesScore(a) ==
    Begins(a, "calculateScore") /\ rpc'[a] # "done"

GradesOf(grades, high, correct) ==
    {i \in 1..Len(grades) :
        /\ IF high THEN grades[i].confidenceScore >= 3
                   ELSE grades[i].confidenceScore < 3
        /\ grades[i].result = correct}

\* C29: calculateConfidenceScore is highWeight * (correct grades of
\* confidence >= 3) - highWeight * (wrong grades of confidence >= 3) +
\* lowWeight * (correct grades of confidence < 3) - lowWeight * (wrong
\* grades of confidence < 3) under the weights configured when it runs,
\* 0 for the empty list.
C29_ConfidenceScoreFormula ==
    [][\A a \in RequestIds :
          ComputesScore(a) =>
             LET grades == request'[a].attempt.grades
                 w == weightsCollection'[GLOBAL_WEIGHTS_ID]
             IN /\ score'[a].confidenceScore =
                      w.highWeight * Cardinality(GradesOf(grades, TRUE, TRUE))
                        - w.highWeight * Cardinality(GradesOf(grades, TRUE, FALSE))
                        + w.lowWeight * Cardinality(GradesOf(grades, FALSE, TRUE))
                        - w.lowWeight * Cardinality(GradesOf(grades, FALSE, FALSE))
                /\ grades = << >> => score'[a].confidenceScore = 0]_vars

\* C29 witness.
C29_Witness ==
    \E a \in RequestIds :
        /\ request[a].op = "calculateScore"
        /\ rpc[a] = "readUserGameMetrics"
        /\ weightsCollection[GLOBAL_WEIGHTS_ID] # DefaultWeights
        /\ request[a].attempt.grades =
               << [confidenceScore |-> 3, result |-> TRUE],
                  [confidenceScore |-> 2, result |-> TRUE] >>
        /\ score[a].confidenceScore = 50

\* Sum of the pointsAdded of the scoring requests among 1..n that succeeded.
RECURSIVE CommittedPoints(_)
CommittedPoints(n) ==
    IF n = 0 THEN 0
    ELSE CommittedPoints(n - 1)
         + (IF request[n].op = "calculateScore" /\ response[n] = "ok"
            THEN score[n].pointsAdded ELSE 0)

\* C30: when scoring requests and metricTrigger requests on one metric of
\* the user have ended, the row's value is the sum of the pointsAdded of
\* the scoring requests and of the increments of the metricTrigger
\* requests that succeeded.
C30_ScoringIsAnIncrement ==
    (/\ RequestsQuiescent
     /\ Quiescent
     /\ \A a \in RequestIds : request[a].op \in {"none", "calculateScore"}) =>
        RowValue(userMetricCollection, "m1")
            = CommittedPoints(MaxRequests) + CommittedIncrements("m1", MaxCalls)

\* C31: updateWeights with a part of the weights changes the supplied
\* weights and leaves every other weight at the value getWeights gave
\* before it; a following getWeights returns the merged configuration.
C31_UpdateWeightsMerges ==
    [][\A newWeights \in PartialWeights :
          UpdateWeights(newWeights) =>
             Get(weightsCollection') =
                 [n \in WeightNames |->
                     IF n \in DOMAIN newWeights THEN newWeights[n]
                     ELSE Get(weightsCollection)[n]]]_vars

\* C32: a metricTrigger for a user leaves unchanged every UserGameMetric
\* and the stored achievements of every other user and every
\* UserGameMetric of the user whose metricId is not in the request, and
\* it modifies no GameMetric and no MetricAchievement.
C32_TriggerTouchesOnlyItsUserAndMetrics ==
    [][\A c \in Calls :
          pc'[c] # pc[c] =>
             /\ otherUserMetricCollection' = otherUserMetricCollection
             /\ \A u \in DOMAIN userAchievementCollection \ {UserId} :
                    /\ u \in DOMAIN userAchievementCollection'
                    /\ userAchievementCollection'[u] = userAchievementCollection[u]
             /\ \A m \in MetricIds \ MetricIdsOf(body'[c]) :
                    Row(userMetricCollection', m) = Row(userMetricCollection, m)
             /\ metricCollection' = metricCollection
             /\ achievementCollection' = achievementCollection]_vars

\* C32 witness: a call that named m1 only has committed and unlocked an
\* achievement while the user has a row of m2 and another user has rows and
\* achievements.
C32_Witness ==
    \E c \in Calls :
        /\ result[c] = "ok"
        /\ MetricIdsOf(body[c]) = {"m1"}
        /\ DOMAIN userMetricCollection = {"m1", "m2"}
        /\ StoredAchievementIds(UserId) # {}
        /\ StoredAchievementIds(OtherUserId) = {"a3"}
        /\ OtherUserId \in DOMAIN otherUserMetricCollection

\* C33: the metric writes an eventTrigger causes belong to its own
\* transaction: when the transaction aborts or the call returns an error,
\* no increment and no unlock it caused remains committed.
C33_FailedEventTriggerLeavesNothing ==
    \A c \in Triggers :
        (/\ tpc[c] = "done"
         /\ tresult[c] # "ok"
         /\ \A d \in Triggers \ {c} : tpc[d] = "idle") => NothingStored

\* The entries the step adds to the stored achievements of the user.
EntriesAdded ==
    IF UserId \in DOMAIN userAchievementCollection
    THEN {userAchievementCollection'[UserId][i] :
             i \in 1..Len(userAchievementCollection'[UserId])}
         \ {userAchievementCollection[UserId][i] :
                i \in 1..Len(userAchievementCollection[UserId])}
    ELSE {}

\* C34: metricTrigger adds an achievement to the stored achievements of
\* the user only if the achievement's metricId is one of the requested
\* metrics and its metricCount is at most the user's value of the metric
\* after the call's increment.
C34_StoredUnlockMetItsThreshold ==
    [][\A c \in Calls :
          pc'[c] # pc[c] =>
             \A e \in EntriesAdded :
                \E k \in 1..Len(achievementCollection) :
                    LET a == achievementCollection[k] IN
                    /\ a.id = e.achievementId
                    /\ a.metricId \in MetricIdsOf(body[c])
                    /\ a.metricCount <=
                          RowValue(userMetricCollection, a.metricId)
                          + IncrementOf(metrics[c], a.metricId, Len(metrics[c]))]_vars

\* C34 witness: a call on m1 has stored a1 (metricCount 2) and neither a2
\* (metricCount 5) nor a3 (of m2).
C34_Witness ==
    \E c \in Calls :
        /\ result[c] = "ok"
        /\ MetricIdsOf(body[c]) = {"m1"}
        /\ StoredAchievementIds(UserId) = {"a1"}
        /\ RowValue(userMetricCollection, "m1") \in 2..4

\* C35: no step of a trigger removes an entry from the stored achievements
\* of a user: what is stored stays stored, in place, also when a negative
\* increment takes the metric below the achievement's metricCount.
C35_StoredAchievementsOnlyGrow ==
    [][\A u \in DOMAIN userAchievementCollection :
          /\ u \in DOMAIN userAchievementCollection'
          /\ Len(userAchievementCollection'[u]) >= Len(userAchievementCollection[u])
          /\ \A i \in 1..Len(userAchievementCollection[u]) :
                 userAchievementCollection'[u][i] = userAchievementCollection[u][i]]_vars

\* C35 witness: a1 (metricCount 2 on m1) is stored and a committed trigger
\* with a negative increment has taken m1 below 2.
C35_Witness ==
    \E c \in Calls :
        /\ result[c] = "ok"
        /\ \E i \in 1..Len(metrics[c]) :
               metrics[c][i] = [metricId |-> "m1", value |-> << -1 >>]
        /\ "a1" \in StoredAchievementIds(UserId)
        /\ RowValue(userMetricCollection, "m1") < 2

\* C36: in every reachable state the eventId of every stored Rule
\* references an existing Event, whatever rules and events were created,
\* updated and deleted.
C36_RuleReferencesAnEvent ==
    \A i \in 1..Len(rulesCollection) :
        rulesCollection[i].eventId \in DOMAIN eventsCollection

\* C37: in every reachable state the metricId of every stored
\* MetricAchievement references an existing GameMetric, whatever metrics
\* and achievements were created, updated and deleted.
C37_AchievementReferencesAMetric ==
    \A i \in 1..Len(achievementCollection) :
        achievementCollection[i].metricId \in DOMAIN metricCollection

\* C38: calculateScore returns totalScore = the user's stored value of the
\* attempt's metric before the call (0 when there is no row) + pointsAdded,
\* and when the call has succeeded the stored value of the metric is the
\* totalScore returned, whether the row existed or the call created it.
C38_TotalScoreIsStored ==
    [][\A a \in RequestIds :
          /\ ComputesScore(a) =>
                LET m == request'[a].attempt.metricId
                    before == IF m \in DOMAIN userMetricCollection
                              THEN userMetricCollection[m] ELSE 0
                IN score'[a].finalPoints = before + score'[a].pointsAdded
          /\ (/\ request[a].op = "calculateScore"
              /\ rpc[a] # "done"
              /\ rpc'[a] = "done"
              /\ response'[a] = "ok") =>
                LET m == request[a].attempt.metricId
                IN /\ m \in DOMAIN userMetricCollection'
                   /\ userMetricCollection'[m] = score[a].finalPoints]_vars

\* C38 witness: one scoring call created the row and a later one, which
\* read its total, updated it.
C38_Witness ==
    /\ request[1].op = "calculateScore"
    /\ request[2].op = "calculateScore"
    /\ response[1] = "ok"
    /\ response[2] = "ok"
    /\ score[1].currentPoints = 0
    /\ score[1].pointsAdded > 0
    /\ score[2].currentPoints = score[1].finalPoints
    /\ score[2].pointsAdded > 0
    /\ RowValue(userMetricCollection, "m1") = score[2].finalPoints

====
